---- MODULE Spec2Model ----
(***************************************************************************)
(* A model of the live session client of google/genai/live.py:             *)
(*   AsyncLive.connect          the setup handshake                        *)
(*   AsyncSession.send          normalise, encode, write one frame         *)
(*   AsyncSession.receive       one turn of decoded server messages        *)
(*   AsyncSession.start_stream  the send loop / receive coordinator        *)
(*                                                                         *)
(* Python values are records tagged with their Python type in field t; a   *)
(* dict is a record whose other fields are its keys, so that               *)
(* `'id' in input` is "id" \in DOMAIN input.                               *)
(***************************************************************************)
EXTENDS Integers, Sequences, FiniteSets, TLC

\* ------------------------------------------------------------------ bounds
MaxFrames == 4      \* frames the server sends over one connection
MaxSends  == 2      \* send() calls made by the caller of one session
MaxChunks == 2      \* chunks of the source of start_stream
MaxCloses == 2      \* close() calls made by the caller of one session
ScenarioChunks == 3 \* chunks of the source in the stream with one reply
MaxBlobs == 3       \* blobs of the simulation, the added ones included
MESSAGE_DURATION == 3 \* frames of a conversation (main.py has 120)

\* ------------------------------------------------------- inbound frames
\* The bytes of one inbound frame: a JSON object, the empty body, or bytes
\* json.loads rejects.
FrameTurnComplete == [raw |-> "json", obj |-> [serverContent |-> [turnComplete |-> TRUE]]]
FrameFinalChunk   == [raw |-> "json", obj |-> [serverContent |-> [modelTurn |-> "turn", turnComplete |-> TRUE]]]
FramePartial      == [raw |-> "json", obj |-> [serverContent |-> [modelTurn |-> "turn"]]]
FrameNotComplete  == [raw |-> "json", obj |-> [serverContent |-> [turnComplete |-> FALSE]]]
FrameInterrupted  == [raw |-> "json", obj |-> [serverContent |-> [interrupted |-> TRUE]]]
FrameToolCall     == [raw |-> "json", obj |-> [toolCall |-> [functionCalls |-> <<"fc">>]]]
FrameCancel       == [raw |-> "json", obj |-> [toolCallCancellation |-> [ids |-> <<"fc">>]]]
FrameSetupAck     == [raw |-> "json", obj |-> [setupComplete |-> TRUE]]
FrameEmpty        == [raw |-> "empty"]
FrameGarbage      == [raw |-> "garbage"]

ServerFrames ==
  { FrameTurnComplete, FramePartial, FrameNotComplete, FrameToolCall,
    FrameCancel, FrameSetupAck, FrameEmpty, FrameGarbage }

\* getv(from_object, [key]) is not None
Has(obj, key) == key \in DOMAIN obj

\* The empty dict {} (to_object before any setv).
EmptyDict == <<>>

\* setv(to_object, [key], value)
SetV(obj, key, value) ==
  [k \in (DOMAIN obj) \cup {key} |-> IF k = key THEN value ELSE obj[k]]

\* _Content_from_mldev / _Content_from_vertex: the model turn is carried over.
Content_from(turn) == turn

\* A decoder that reports a missing turnComplete as false.
LiveServerContent_from_mldev_defaulting(from_object) ==
  LET o1 == IF Has(from_object, "modelTurn")
              THEN SetV(EmptyDict, "model_turn", Content_from(from_object.modelTurn))
              ELSE EmptyDict
      o2 == IF Has(from_object, "turnComplete")
              THEN SetV(o1, "turn_complete", from_object.turnComplete)
              ELSE SetV(o1, "turn_complete", FALSE)
      o3 == IF Has(from_object, "interrupted")
              THEN SetV(o2, "interrupted", from_object.interrupted)
              ELSE o2
  IN o3

LiveServerContent_from_mldev(from_object) ==
  LET o1 == IF Has(from_object, "modelTurn")
              THEN SetV(EmptyDict, "model_turn", Content_from(from_object.modelTurn))
              ELSE EmptyDict
      o2 == IF Has(from_object, "turnComplete")
              THEN SetV(o1, "turn_complete", from_object.turnComplete)
              ELSE o1
      o3 == IF Has(from_object, "interrupted")
              THEN SetV(o2, "interrupted", from_object.interrupted)
              ELSE o2
  IN o3

\* A decoder that copies turnComplete only when it is true.
LiveServerContent_from_vertex_truthy(from_object) ==
  LET o1 == IF Has(from_object, "modelTurn")
              THEN SetV(EmptyDict, "model_turn", Content_from(from_object.modelTurn))
              ELSE EmptyDict
      o2 == IF Has(from_object, "turnComplete") /\ from_object.turnComplete
              THEN SetV(o1, "turn_complete", from_object.turnComplete)
              ELSE o1
      o3 == IF Has(from_object, "interrupted")
              THEN SetV(o2, "interrupted", from_object.interrupted)
              ELSE o2
  IN o3

LiveServerContent_from_vertex(from_object) ==
  LET o1 == IF Has(from_object, "modelTurn")
              THEN SetV(EmptyDict, "model_turn", Content_from(from_object.modelTurn))
              ELSE EmptyDict
      o2 == IF Has(from_object, "turnComplete")
              THEN SetV(o1, "turn_complete", from_object.turnComplete)
              ELSE o1
      o3 == IF Has(from_object, "interrupted")
              THEN SetV(o2, "interrupted", from_object.interrupted)
              ELSE o2
  IN o3

LiveToolCall_from_mldev(from_object) ==
  IF Has(from_object, "functionCalls")
    THEN SetV(EmptyDict, "function_calls", from_object.functionCalls)
    ELSE EmptyDict

LiveToolCall_from_vertex(from_object) ==
  IF Has(from_object, "functionCalls")
    THEN SetV(EmptyDict, "function_calls", from_object.functionCalls)
    ELSE EmptyDict

LiveServerMessage_from_mldev(from_object) ==
  LET o1 == IF Has(from_object, "serverContent")
              THEN SetV(EmptyDict, "server_content",
                        LiveServerContent_from_mldev(from_object.serverContent))
              ELSE EmptyDict
      o2 == IF Has(from_object, "toolCall")
              THEN SetV(o1, "tool_call", LiveToolCall_from_mldev(from_object.toolCall))
              ELSE o1
      o3 == IF Has(from_object, "toolCallCancellation")
              THEN SetV(o2, "tool_call_cancellation", from_object.toolCallCancellation)
              ELSE o2
  IN o3

LiveServerMessage_from_vertex(from_object) ==
  LET o1 == IF Has(from_object, "serverContent")
              THEN SetV(EmptyDict, "server_content",
                        LiveServerContent_from_vertex(from_object.serverContent))
              ELSE EmptyDict
      o2 == IF Has(from_object, "toolCall")
              THEN SetV(o1, "tool_call", LiveToolCall_from_vertex(from_object.toolCall))
              ELSE o1
      o3 == IF Has(from_object, "toolCallCancellation")
              THEN SetV(o2, "tool_call_cancellation", from_object.toolCallCancellation)
              ELSE o2
  IN o3

\* json.loads(raw_response) raises JSONDecodeError
JsonFails(frame) == frame.raw = "garbage"

\* The body of _receive after the socket read: the decoded message of a
\* frame json.loads accepts (the empty body decodes as {}).
DecodeFrame(dialectB, frame) ==
  LET response == IF frame.raw = "json" THEN frame.obj ELSE EmptyDict
  IN IF dialectB THEN LiveServerMessage_from_vertex(response)
                 ELSE LiveServerMessage_from_mldev(response)

\* result.server_content and result.server_content.turn_complete
EndsTurn(result) ==
  /\ Has(result, "server_content")
  /\ Has(result.server_content, "turn_complete")
  /\ result.server_content.turn_complete

\* ------------------------------------------------------- Python values
PyNone      == [t |-> "NoneType"]
PyStr(s)    == [t |-> "str", s |-> s]
PyBytes(b)  == [t |-> "bytes", b |-> b]
PyInt(n)    == [t |-> "int", n |-> n]
PyBool(b)   == [t |-> "bool", v |-> b]
PyList(xs)  == [t |-> "list", items |-> xs]

\* pydantic's model_dump(mode='json') of a bytes field: base64 text.
Base64Str(v) == [t |-> "str", s |-> v.b, enc |-> "base64"]

IsNone(v)  == v.t = "NoneType"
IsDict(v)  == v.t = "dict"
IsStr(v)   == v.t = "str"
IsBytes(v) == v.t = "bytes"
IsList(v)  == v.t = "list"
Keys(d)    == DOMAIN d \ {"t"}

\* isinstance(v, Sequence): lists, and also str and bytes
IsSequence(v) == v.t \in {"list", "str", "bytes"}

\* The elements a Python loop over a Sequence visits (the characters of a
\* str and the ints of bytes are neither dicts, strs nor typed values).
Elements(v) == IF IsList(v) THEN v.items ELSE <<>>

\* Python's truth value of v
Truthy(v) ==
  CASE v.t = "NoneType" -> FALSE
    [] v.t = "str"      -> v.s # ""
    [] v.t = "bytes"    -> v.b # ""
    [] v.t = "int"      -> v.n # 0
    [] v.t = "bool"     -> v.v
    [] v.t = "list"     -> v.items # <<>>
    [] v.t = "dict"     -> Keys(v) # {}
    [] OTHER            -> TRUE

Map(f(_), xs) == [i \in 1..Len(xs) |-> f(xs[i])]
AnyOf(p(_), xs) == \E i \in 1..Len(xs) : p(xs[i])

\* A Python dict with the entries of rec
AsDict(rec) == [k \in DOMAIN rec \cup {"t"} |-> IF k = "t" THEN "dict" ELSE rec[k]]

\* d.get(key): the value, or None
Get(d, key) == IF key \in DOMAIN d THEN d[key] ELSE PyNone

\* ---------------------------------------------------- pydantic schemas
\* types.Blob(**item)
BlobValid(item) ==
  /\ Keys(item) \subseteq {"data", "mime_type"}
  /\ Get(item, "data").t \in {"bytes", "NoneType"}
  /\ Get(item, "mime_type").t \in {"str", "NoneType"}

\* types.FunctionResponse(**item)
FunctionResponseValid(item) ==
  /\ Keys(item) \subseteq {"id", "name", "response"}
  /\ Get(item, "id").t \in {"str", "NoneType"}
  /\ Get(item, "name").t \in {"str", "NoneType"}
  /\ Get(item, "response").t \in {"dict", "NoneType"}

\* An element of function_responses / media_chunks given to a typed
\* message: a dict that validates, or a value of the typed class.
AsFunctionResponseOk(x) ==
  \/ x.t = "FunctionResponse"
  \/ IsDict(x) /\ FunctionResponseValid(x)

AsBlobOk(x) ==
  \/ x.t = "Blob"
  \/ IsDict(x) /\ BlobValid(x)

\* types.LiveClientToolResponse(**formatted_input)
LiveClientToolResponseValid(d) ==
  /\ Keys(d) \subseteq {"function_responses"}
  /\ LET frs == Get(d, "function_responses")
     IN \/ IsNone(frs)
        \/ IsList(frs) /\ \A i \in 1..Len(frs.items) : AsFunctionResponseOk(frs.items[i])

\* types.LiveClientRealtimeInput(**formatted_input)
LiveClientRealtimeInputValid(d) ==
  /\ Keys(d) \subseteq {"media_chunks"}
  /\ LET mc == Get(d, "media_chunks")
     IN \/ IsNone(mc)
        \/ IsList(mc) /\ \A i \in 1..Len(mc.items) : AsBlobOk(mc.items[i])

\* model_dump(exclude_none=True, mode='json') of a FunctionResponse
DumpFunctionResponse(fr) ==
  [k \in {f \in {"id", "name", "response"} : ~IsNone(Get(fr, f))} |-> fr[k]]

\* model_dump(exclude_none=True, mode='json') of a Blob
DumpBlob(b) ==
  [k \in {f \in {"data", "mime_type"} : ~IsNone(Get(b, f))} |->
     IF k = "data" THEN Base64Str(b[k]) ELSE b[k]]

\* types.FunctionResponseDict(name=.., response=..) plus the id when truthy
FunctionResponseTypedDict(fr) ==
  LET dump == DumpFunctionResponse(fr)
      base == [name |-> Get(dump, "name"), response |-> Get(dump, "response")]
  IN AsDict(IF Truthy(Get(dump, "id")) THEN SetV(base, "id", dump.id) ELSE base)

\* ---------------------------------------------------- MessageNormalizer
Unsupported == "Unsupported input type"
FUNCTION_RESPONSE_REQUIRES_ID == "FunctionResponse request must have an id field"

Raise(e)  == [ok |-> FALSE, err |-> e]
Return(m) == [ok |-> TRUE, msg |-> m]

\* isinstance(c, dict) and 'name' in c and 'response' in c
IsFunctionResponseRecord(c) == IsDict(c) /\ {"name", "response"} \subseteq DOMAIN c
\* isinstance(b, dict) and 'data' in b
IsBlobRecord(b) == IsDict(b) /\ "data" \in DOMAIN b
\* isinstance(item, get_args(types.PartUnion))
IsPartUnion(item) == item.t \in {"str", "Part", "File"}
\* values of pydantic classes (they have model_dump)
IsTyped(v) ==
  v.t \in {"Blob", "FunctionResponse", "LiveClientToolResponse",
           "LiveClientContent", "LiveClientRealtimeInput", "Part"}

\* b.model_dump(exclude_none=True, mode='json')
BlobDump(b) == AsDict(DumpBlob(b))
FunctionResponseDump(fr) == AsDict(DumpFunctionResponse(fr))
PartDump(part) == AsDict([text |-> part.text])
ModelDump(v) ==
  IF v.t = "Blob" THEN BlobDump(v)
  ELSE IF v.t = "Part" THEN PartDump(v)
  ELSE FunctionResponseDump(v)

\* t.t_contents followed by _Content_to_mldev/_Content_to_vertex and
\* types.Content(**item): the parts become one user turn, a str a text part.
PartDict(item) == IF IsStr(item) THEN [text |-> item.s] ELSE [text |-> item.text.s]
ContentTurns(parts) == PyList(<< [role |-> "user", parts |-> Map(PartDict, parts)] >>)

\* A wrapping step that leaves the dumped blob outside a list.
FormattedInputKeepingBlob(vertexai, input) ==
  IF IsStr(input) THEN Return(PyList(<<input>>))
  ELSE IF IsDict(input) /\ "data" \in DOMAIN input THEN
    IF ~BlobValid(input) THEN Raise(Unsupported)
    ELSE IF IsBytes(input.data) THEN Return(BlobDump(input))
    ELSE Return(input)
  ELSE IF input.t = "Blob" THEN Return(PyList(<<input>>))
  ELSE IF IsDict(input) /\ "name" \in DOMAIN input /\ "response" \in DOMAIN input THEN
    IF ~vertexai /\ "id" \notin DOMAIN input
      THEN Raise(FUNCTION_RESPONSE_REQUIRES_ID)
      ELSE Return(PyList(<<input>>))
  ELSE Return(input)

\* lines 380-407: wrapping a single value into a list
FormattedInput(vertexai, input) ==
  IF IsStr(input) THEN Return(PyList(<<input>>))
  ELSE IF IsDict(input) /\ "data" \in DOMAIN input THEN
    IF ~BlobValid(input) THEN Raise(Unsupported)
    ELSE IF IsBytes(input.data) THEN Return(PyList(<<BlobDump(input)>>))
    ELSE Return(input)
  ELSE IF input.t = "Blob" THEN Return(PyList(<<input>>))
  ELSE IF IsDict(input) /\ "name" \in DOMAIN input /\ "response" \in DOMAIN input THEN
    IF ~vertexai /\ "id" \notin DOMAIN input
      THEN Raise(FUNCTION_RESPONSE_REQUIRES_ID)
      ELSE Return(PyList(<<input>>))
  ELSE Return(input)

\* lines 413-446: a sequence holding a tool-response record
ToolResponseFromRecords(vertexai, formatted_input) ==
  LET items == SelectSeq(Elements(formatted_input), IsDict)
      outcome(item) ==
        IF ~FunctionResponseValid(item) THEN Unsupported
        ELSE IF IsNone(Get(item, "id")) /\ ~vertexai THEN FUNCTION_RESPONSE_REQUIRES_ID
        ELSE "ok"
      bad == {i \in 1..Len(items) : outcome(items[i]) # "ok"}
  IN IF bad # {}
       THEN Raise(outcome(items[CHOOSE i \in bad : \A j \in bad : i <= j]))
       ELSE Return([tool_response |->
                      [function_responses |-> PyList(Map(FunctionResponseTypedDict, items))]])

\* A content branch that marks every content update as completing the turn.
ContentFromPartsCompleting(formatted_input, end_of_turn) ==
  LET content_input_parts == SelectSeq(Elements(formatted_input), IsPartUnion)
  IN Return([client_content |->
               [turns |-> ContentTurns(content_input_parts),
                turn_complete |-> PyBool(TRUE)]])

\* lines 447-488: a sequence holding a str
ContentFromParts(formatted_input, end_of_turn) ==
  LET content_input_parts == SelectSeq(Elements(formatted_input), IsPartUnion)
  IN Return([client_content |->
               [turns |-> ContentTurns(content_input_parts),
                turn_complete |-> end_of_turn]])

\* lines 489-506: any other sequence
RealtimeFromSequence(formatted_input) ==
  LET items == Elements(formatted_input)
  IN IF AnyOf(IsBlobRecord, items)
       THEN Return([realtime_input |-> [media_chunks |-> PyList(items)]])
     ELSE IF AnyOf(LAMBDA b : b.t = "Blob", items)
       THEN IF \A i \in 1..Len(items) : IsTyped(items[i])
              THEN Return([realtime_input |->
                             [media_chunks |-> PyList(Map(ModelDump, items))]])
              ELSE Raise("AttributeError")
     ELSE Raise(Unsupported)

\* A dict branch that fills the realtime variant next to the content.
MessageFromDictFillingBoth(formatted_input) ==
  IF "content" \in DOMAIN formatted_input \/ "turns" \in DOMAIN formatted_input THEN
    Return([client_content |->
              [turns |-> IF "turns" \in DOMAIN formatted_input
                           THEN formatted_input.turns ELSE formatted_input.content,
               turn_complete |-> Get(formatted_input, "turn_complete")],
            realtime_input |->
              [media_chunks |-> Get(formatted_input, "media_chunks")]])
  ELSE IF "media_chunks" \in DOMAIN formatted_input THEN
    IF ~LiveClientRealtimeInputValid(formatted_input) THEN Raise(Unsupported)
    ELSE IF IsNone(formatted_input.media_chunks) THEN Raise("KeyError")
    ELSE Return([realtime_input |->
                   [media_chunks |->
                      PyList(Map(BlobDump, formatted_input.media_chunks.items))]])
  ELSE IF "function_responses" \in DOMAIN formatted_input THEN
    IF ~LiveClientToolResponseValid(formatted_input) THEN Raise(Unsupported)
    ELSE IF IsNone(formatted_input.function_responses) THEN Raise("KeyError")
    ELSE Return([tool_response |->
                   [function_responses |->
                      PyList(Map(FunctionResponseDump,
                                 formatted_input.function_responses.items))]])
  ELSE Raise(Unsupported)

\* lines 508-554: a dict that is an already canonical message
MessageFromDict(formatted_input) ==
  IF "content" \in DOMAIN formatted_input \/ "turns" \in DOMAIN formatted_input THEN
    Return([client_content |->
              [turns |-> IF "turns" \in DOMAIN formatted_input
                           THEN formatted_input.turns ELSE formatted_input.content,
               turn_complete |-> Get(formatted_input, "turn_complete")]])
  ELSE IF "media_chunks" \in DOMAIN formatted_input THEN
    IF ~LiveClientRealtimeInputValid(formatted_input) THEN Raise(Unsupported)
    ELSE IF IsNone(formatted_input.media_chunks) THEN Raise("KeyError")
    ELSE Return([realtime_input |->
                   [media_chunks |->
                      PyList(Map(BlobDump, formatted_input.media_chunks.items))]])
  ELSE IF "function_responses" \in DOMAIN formatted_input THEN
    IF ~LiveClientToolResponseValid(formatted_input) THEN Raise(Unsupported)
    ELSE IF IsNone(formatted_input.function_responses) THEN Raise("KeyError")
    ELSE Return([tool_response |->
                   [function_responses |->
                      PyList(Map(FunctionResponseDump,
                                 formatted_input.function_responses.items))]])
  ELSE Raise(Unsupported)

\* lines 555-595: a typed LiveClientRealtimeInput; the dumped data is
\* base64 text, never bytes, so the chunks are left as dumped
MessageFromRealtimeInput(formatted_input) ==
  LET chunks == formatted_input.media_chunks
  IN IF IsNone(chunks) THEN Return([realtime_input |-> [media_chunks |-> PyNone]])
     ELSE IF chunks.items = <<>> THEN Raise("IndexError")
     ELSE IF IsNone(chunks.items[1].data) THEN Raise("KeyError")
     ELSE Return([realtime_input |->
                    [media_chunks |-> PyList(Map(BlobDump, chunks.items))]])

\* lines 597-606: a typed LiveClientContent
MessageFromClientContent(formatted_input) ==
  Return([client_content |->
            [turns |-> formatted_input.turns,
             turn_complete |-> formatted_input.turn_complete]])

\* lines 607-621: a typed LiveClientToolResponse; only the first function
\* response is looked at
MessageFromToolResponse(vertexai, formatted_input) ==
  LET frs == formatted_input.function_responses
  IN IF ~vertexai /\ ~IsNone(frs) /\ frs.items = <<>> THEN Raise("IndexError")
     ELSE IF ~vertexai /\ ~IsNone(frs) /\ ~Truthy(frs.items[1].id)
       THEN Raise(FUNCTION_RESPONSE_REQUIRES_ID)
     ELSE Return([tool_response |->
                    [function_responses |->
                       IF IsNone(frs) THEN PyNone
                       ELSE PyList(Map(FunctionResponseDump, frs.items))]])

\* lines 622-638: a typed FunctionResponse
MessageFromFunctionResponse(vertexai, formatted_input) ==
  IF ~vertexai /\ ~Truthy(formatted_input.id)
    THEN Raise(FUNCTION_RESPONSE_REQUIRES_ID)
    ELSE Return([tool_response |->
                   [function_responses |->
                      PyList(<<FunctionResponseTypedDict(formatted_input)>>)]])

\* A normaliser that gives an empty input the end_of_turn of the call.
ParseClientMessageEchoingFlag(vertexai, input, end_of_turn) ==
  IF ~Truthy(input) THEN Return([client_content |-> [turn_complete |-> end_of_turn]])
  ELSE
    LET wrapped == FormattedInput(vertexai, input)
        formatted_input == wrapped.msg
    IN IF ~wrapped.ok THEN wrapped
       ELSE IF IsSequence(formatted_input)
               /\ AnyOf(IsFunctionResponseRecord, Elements(formatted_input))
         THEN ToolResponseFromRecords(vertexai, formatted_input)
       ELSE IF IsSequence(formatted_input) /\ AnyOf(IsStr, Elements(formatted_input))
         THEN ContentFromParts(formatted_input, end_of_turn)
       ELSE IF IsSequence(formatted_input)
         THEN RealtimeFromSequence(formatted_input)
       ELSE IF IsDict(formatted_input)
         THEN MessageFromDict(formatted_input)
       ELSE IF formatted_input.t = "LiveClientRealtimeInput"
         THEN MessageFromRealtimeInput(formatted_input)
       ELSE IF formatted_input.t = "LiveClientContent"
         THEN MessageFromClientContent(formatted_input)
       ELSE IF formatted_input.t = "LiveClientToolResponse"
         THEN MessageFromToolResponse(vertexai, formatted_input)
       ELSE IF formatted_input.t = "FunctionResponse"
         THEN MessageFromFunctionResponse(vertexai, formatted_input)
       ELSE Raise(Unsupported)

\* A normaliser that looks for a string before a tool-response record.
ParseClientMessageContentFirst(vertexai, input, end_of_turn) ==
  IF ~Truthy(input) THEN Return([client_content |-> [turn_complete |-> PyBool(TRUE)]])
  ELSE
    LET wrapped == FormattedInput(vertexai, input)
        formatted_input == wrapped.msg
    IN IF ~wrapped.ok THEN wrapped
       ELSE IF IsSequence(formatted_input) /\ AnyOf(IsStr, Elements(formatted_input))
         THEN ContentFromParts(formatted_input, end_of_turn)
       ELSE IF IsSequence(formatted_input)
               /\ AnyOf(IsFunctionResponseRecord, Elements(formatted_input))
         THEN ToolResponseFromRecords(vertexai, formatted_input)
       ELSE IF IsSequence(formatted_input)
         THEN RealtimeFromSequence(formatted_input)
       ELSE IF IsDict(formatted_input)
         THEN MessageFromDict(formatted_input)
       ELSE IF formatted_input.t = "LiveClientRealtimeInput"
         THEN MessageFromRealtimeInput(formatted_input)
       ELSE IF formatted_input.t = "LiveClientContent"
         THEN MessageFromClientContent(formatted_input)
       ELSE IF formatted_input.t = "LiveClientToolResponse"
         THEN MessageFromToolResponse(vertexai, formatted_input)
       ELSE IF formatted_input.t = "FunctionResponse"
         THEN MessageFromFunctionResponse(vertexai, formatted_input)
       ELSE Raise(Unsupported)

\* AsyncSession._parse_client_message(input, end_of_turn)
ParseClientMessage(vertexai, input, end_of_turn) ==
  IF ~Truthy(input) THEN Return([client_content |-> [turn_complete |-> PyBool(TRUE)]])
  ELSE
    LET wrapped == FormattedInput(vertexai, input)
        formatted_input == wrapped.msg
    IN IF ~wrapped.ok THEN wrapped
       ELSE IF IsSequence(formatted_input)
               /\ AnyOf(IsFunctionResponseRecord, Elements(formatted_input))
         THEN ToolResponseFromRecords(vertexai, formatted_input)
       ELSE IF IsSequence(formatted_input) /\ AnyOf(IsStr, Elements(formatted_input))
         THEN ContentFromParts(formatted_input, end_of_turn)
       ELSE IF IsSequence(formatted_input)
         THEN RealtimeFromSequence(formatted_input)
       ELSE IF IsDict(formatted_input)
         THEN MessageFromDict(formatted_input)
       ELSE IF formatted_input.t = "LiveClientRealtimeInput"
         THEN MessageFromRealtimeInput(formatted_input)
       ELSE IF formatted_input.t = "LiveClientContent"
         THEN MessageFromClientContent(formatted_input)
       ELSE IF formatted_input.t = "LiveClientToolResponse"
         THEN MessageFromToolResponse(vertexai, formatted_input)
       ELSE IF formatted_input.t = "FunctionResponse"
         THEN MessageFromFunctionResponse(vertexai, formatted_input)
       ELSE Raise(Unsupported)

\* json.dumps(client_message) raises TypeError on a bytes value
JsonSerializable(client_message) ==
  IF "realtime_input" \in DOMAIN client_message
       /\ ~IsNone(client_message.realtime_input.media_chunks)
    THEN \A i \in 1..Len(client_message.realtime_input.media_chunks.items) :
           ~IsBytes(Get(client_message.realtime_input.media_chunks.items[i], "data"))
    ELSE TRUE

\* json.dumps(client_message): the text frame of the message
JsonDumps(client_message) == [raw |-> "json", obj |-> client_message]

\* ------------------------------------------------------- setup payload
\* _GenerateContentConfig_to_mldev / _to_vertex: the fields the caller set
\* in generation_config, carried into the wire object.
GenerateContentConfig_to(generation_config) ==
  [k \in Keys(generation_config) |-> generation_config[k]]

\* _SpeechConfig_to_mldev / _to_vertex of t.t_speech_config(speech_config):
\* a voice name becomes the prebuilt voice of a voice config.
SpeechConfig_to(speech_config) ==
  [voiceConfig |-> [prebuiltVoiceConfig |-> [voiceName |-> speech_config]]]

\* _Content_to_mldev / _to_vertex of t.t_content(system_instruction)
SystemInstruction_to(system_instruction) ==
  [parts |-> << [text |-> system_instruction.s] >>]

\* A step that always assigns a new generationConfig holding its key alone.
SetInGenerationConfigAnew(to_object, key, value) ==
  SetV(to_object, "generationConfig", SetV(EmptyDict, key, value))

\* to_object['generationConfig'][key] = value, or a new generationConfig
\* holding the key alone when to_object has none
SetInGenerationConfig(to_object, key, value) ==
  IF Has(to_object, "generationConfig")
    THEN SetV(to_object, "generationConfig", SetV(to_object.generationConfig, key, value))
    ELSE SetV(to_object, "generationConfig", SetV(EmptyDict, key, value))

\* return_value = {'setup': {'model': model}}; return_value['setup'].update(to_object)
SetupOf(model, to_object) ==
  [setup |-> [k \in {"model"} \cup DOMAIN to_object |->
                IF k \in DOMAIN to_object THEN to_object[k] ELSE model]]

\* A dialect A setup that defaults the response modalities as dialect B does.
LiveSetup_to_mldev_defaulting(model, config) ==
  LET o1 == IF ~IsNone(Get(config, "generation_config"))
              THEN SetV(EmptyDict, "generationConfig",
                        GenerateContentConfig_to(config.generation_config))
              ELSE EmptyDict
      o2 == IF ~IsNone(Get(config, "response_modalities"))
              THEN SetInGenerationConfig(o1, "responseModalities",
                                         config.response_modalities)
              ELSE SetInGenerationConfig(o1, "responseModalities",
                                         PyList(<<PyStr("AUDIO")>>))
      o3 == IF ~IsNone(Get(config, "speech_config"))
              THEN SetInGenerationConfig(o2, "speechConfig",
                                         SpeechConfig_to(config.speech_config))
              ELSE o2
      o4 == IF ~IsNone(Get(config, "system_instruction"))
              THEN SetV(o3, "systemInstruction",
                        SystemInstruction_to(config.system_instruction))
              ELSE o3
  IN SetupOf(model, o4)

\* AsyncLive._LiveSetup_to_mldev(model, config)
LiveSetup_to_mldev(model, config) ==
  LET o1 == IF ~IsNone(Get(config, "generation_config"))
              THEN SetV(EmptyDict, "generationConfig",
                        GenerateContentConfig_to(config.generation_config))
              ELSE EmptyDict
      o2 == IF ~IsNone(Get(config, "response_modalities"))
              THEN SetInGenerationConfig(o1, "responseModalities",
                                         config.response_modalities)
              ELSE o1
      o3 == IF ~IsNone(Get(config, "speech_config"))
              THEN SetInGenerationConfig(o2, "speechConfig",
                                         SpeechConfig_to(config.speech_config))
              ELSE o2
      o4 == IF ~IsNone(Get(config, "system_instruction"))
              THEN SetV(o3, "systemInstruction",
                        SystemInstruction_to(config.system_instruction))
              ELSE o3
  IN SetupOf(model, o4)

\* AsyncLive._LiveSetup_to_vertex(model, config)
LiveSetup_to_vertex(model, config) ==
  LET o1 == IF ~IsNone(Get(config, "generation_config"))
              THEN SetV(EmptyDict, "generationConfig",
                        GenerateContentConfig_to(config.generation_config))
              ELSE EmptyDict
      o2 == IF ~IsNone(Get(config, "response_modalities"))
              THEN SetInGenerationConfig(o1, "responseModalities",
                                         config.response_modalities)
              ELSE SetInGenerationConfig(o1, "responseModalities",
                                         PyList(<<PyStr("AUDIO")>>))
      o3 == IF ~IsNone(Get(config, "speech_config"))
              THEN SetInGenerationConfig(o2, "speechConfig",
                                         SpeechConfig_to(config.speech_config))
              ELSE o2
      o4 == IF ~IsNone(Get(config, "system_instruction"))
              THEN SetV(o3, "systemInstruction",
                        SystemInstruction_to(config.system_instruction))
              ELSE o3
  IN SetupOf(model, o4)

\* connect, lines 855-872: the config as a LiveConnectConfig
ParameterModel(config) ==
  IF IsNone(config) THEN [t |-> "LiveConnectConfig"]
  ELSE IF IsDict(config) THEN
    [k \in {"t", "generation_config", "response_modalities", "speech_config",
            "system_instruction"} |->
       IF k = "t" THEN "LiveConnectConfig" ELSE Get(config, k)]
  ELSE config

\* connect, lines 874-916: the setup request of the dialect
RequestDict(dialectB, model, config) ==
  IF dialectB THEN LiveSetup_to_vertex(model, ParameterModel(config))
              ELSE LiveSetup_to_mldev(model, ParameterModel(config))

\* The configs given to connect.
Model == "models/live"
GenerationConfigs ==
  { PyNone, [t |-> "GenerationConfig"], [t |-> "GenerationConfig", temperature |-> 1] }
ResponseModalities ==
  { PyNone, PyList(<<>>), PyList(<<PyStr("TEXT")>>),
    PyList(<<PyStr("AUDIO"), PyStr("TEXT")>>) }
SpeechConfigs == { PyNone, PyStr("Puck") }
SystemInstructions == { PyNone, PyStr("Be brief.") }
ConfigInputs ==
  { PyNone, [t |-> "dict"], [t |-> "dict", speech_config |-> PyStr("Puck")],
    [t |-> "dict", response_modalities |-> PyList(<<PyStr("TEXT")>>)] }
  \cup
  [ t : {"LiveConnectConfig"}, generation_config : GenerationConfigs,
    response_modalities : ResponseModalities, speech_config : SpeechConfigs,
    system_instruction : SystemInstructions ]

\* ------------------------------------------------------ input universe
Response     == [t |-> "dict", output |-> PyStr("ok")]
RecordNoId   == [t |-> "dict", name |-> PyStr("f"), response |-> Response]
RecordId     == [t |-> "dict", name |-> PyStr("f"), response |-> Response, id |-> PyStr("id1")]
RecordId2    == [t |-> "dict", name |-> PyStr("g"), response |-> Response, id |-> PyStr("id2")]
RecordIdNone == [t |-> "dict", name |-> PyStr("f"), response |-> Response, id |-> PyNone]
RecordIdEmpty == [t |-> "dict", name |-> PyStr("f"), response |-> Response, id |-> PyStr("")]
RecordBad    == [t |-> "dict", name |-> PyStr("f"), response |-> PyStr("text")]
TypedFR(id)  == [t |-> "FunctionResponse", id |-> id, name |-> PyStr("f"), response |-> Response]
TypedToolResponse(frs) == [t |-> "LiveClientToolResponse", function_responses |-> frs]
DictToolResponse(frs)  == [t |-> "dict", function_responses |-> frs]
BlobRecord   == [t |-> "dict", data |-> PyBytes("pcm"), mime_type |-> PyStr("audio/pcm")]
BlobRecordBad == [t |-> "dict", data |-> PyInt(7), mime_type |-> PyStr("audio/pcm")]
BlobRecordPng == [t |-> "dict", data |-> PyBytes("png"), mime_type |-> PyStr("image/png")]
TypedBlob    == [t |-> "Blob", data |-> PyBytes("pcm"), mime_type |-> PyStr("audio/pcm")]
TypedPart    == [t |-> "Part", text |-> PyStr("hi")]
TypedRealtimeInput(chunks) == [t |-> "LiveClientRealtimeInput", media_chunks |-> chunks]
TypedClientContent(tc) ==
  [t |-> "LiveClientContent",
   turns |-> PyList(<< [role |-> "user", parts |-> << [text |-> "hi"] >>] >>),
   turn_complete |-> tc]

\* tool responses in each accepted shape, with and without ids
ToolResponseInputs ==
  { RecordNoId, RecordId, RecordIdNone, RecordBad,
    PyList(<<RecordId, RecordId2>>), PyList(<<RecordId, RecordNoId>>),
    PyList(<<RecordNoId, RecordId>>), PyList(<<RecordNoId>>),
    TypedFR(PyNone), TypedFR(PyStr("id1")),
    TypedToolResponse(PyList(<<TypedFR(PyStr("id1"))>>)),
    TypedToolResponse(PyList(<<TypedFR(PyNone)>>)),
    TypedToolResponse(PyList(<<>>)),
    TypedToolResponse(PyList(<<TypedFR(PyStr("id1")), TypedFR(PyNone)>>)),
    DictToolResponse(PyList(<<RecordId>>)),
    DictToolResponse(PyList(<<RecordNoId>>)),
    DictToolResponse(PyList(<<RecordId, RecordNoId>>)),
    PyList(<<TypedFR(PyStr("id1"))>>), PyList(<<TypedFR(PyNone)>>),
    PyList(<<RecordId, RecordIdEmpty>>) }

ContentInputs ==
  { PyNone, PyStr(""), PyList(<<>>), [t |-> "dict"],
    PyStr("Hello world!"), PyStr("a"),
    PyList(<<PyStr("a"), PyStr("b")>>),
    PyList(<<PyStr("a"), RecordId>>), PyList(<<PyStr("a"), BlobRecord>>),
    TypedClientContent(PyBool(TRUE)), TypedClientContent(PyNone),
    [t |-> "dict", turns |-> PyList(<<>>), turn_complete |-> PyBool(FALSE)] }

RealtimeInputs ==
  { BlobRecord, BlobRecordPng, BlobRecordBad, TypedBlob,
    PyList(<<BlobRecord>>), PyList(<<TypedBlob>>), PyList(<<TypedBlob, TypedBlob>>),
    TypedRealtimeInput(PyList(<<TypedBlob>>)), TypedRealtimeInput(PyList(<<>>)),
    [t |-> "dict", media_chunks |-> PyList(<<BlobRecord>>)] }

OtherInputs == { PyInt(5), PyInt(0), PyBytes("raw"), PyList(<<PyInt(5)>>), [t |-> "dict", foo |-> PyStr("x")] }

\* lists that match more than one of the list shapes
MixedInputs ==
  { PyList(<<RecordId, PyStr("a")>>), PyList(<<PyStr("a"), TypedBlob>>),
    PyList(<<TypedBlob, PyStr("a")>>), PyList(<<RecordId, BlobRecord>>),
    PyList(<<RecordId, TypedBlob>>), PyList(<<RecordId, TypedFR(PyNone)>>),
    PyList(<<TypedPart>>), PyList(<<TypedPart, TypedPart>>),
    PyList(<<PyStr("a"), TypedPart>>), PyList(<<TypedPart, TypedBlob>>) }

NormInputs ==
  ToolResponseInputs \cup ContentInputs \cup RealtimeInputs \cup OtherInputs
    \cup MixedInputs
EndOfTurns == { PyBool(TRUE), PyBool(FALSE) }

\* ---------------------------------------------------------------- state
VARIABLES
  vertexai,         \* self._api_client.vertexai: FALSE dialect A, TRUE dialect B
  ws,               \* the websocket: "none", "open" or "closed"
  sent,             \* the frames written on the socket, in order
  inbox,            \* the frames the server sent that are not read yet
  arrived,          \* history: every frame the server sent, in order
  nread,            \* history: the number of frames read from the socket
  cpc,              \* position of connect: start, opened, setup_sent, yielded, exited, failed
  ack,              \* the frame connect read as acknowledgement (<<>> before)
  rpc,              \* position of the receive() generator: none, recv, yield, yield_last, ended, raised
  rerr,             \* the error the last receive() raised: none, parse, closed
  rstart,           \* history: nread when the current receive() was invoked
  turn,             \* the messages the current receive() yielded
  delivered,        \* history: what the caller of receive() got, in order
  sendlog,          \* history: the send() calls and their outcome
  closes,           \* history: the number of close() calls
  npc,              \* position of a lone _parse_client_message call: idle, called, returned
  ninput,           \* its input
  neot,             \* its end_of_turn
  nresult,          \* its result
  spc,              \* position of a lone setup request being built: idle, called, built
  config,           \* the config given to connect
  request,          \* the request_dict built from it (<<>> before)
  kpc,              \* position of start_stream: init, wait, yield, sleep, cancel, done, raised
  slpc,             \* position of the _send_loop task: none, next, sending, sleep, done, failed
  stop_event,       \* stop_event.is_set()
  recv_task,        \* recv_task: none, pending, result, closed, error, cancelling, cancelled
  recv_result,      \* the result of a recv_task that completed with a message (<<>> else)
  nchunks,          \* the length of the source stream
  sidx,             \* the number of chunks the send loop has taken from the source
  out,              \* history: the messages start_stream yielded
  reads,            \* the socket reads of receive tasks issued and not completed
  writes,           \* the socket writes of the send loop issued and not completed
  blobs,            \* SimulationEnvironment.blobs: the list of blobs
  conversations,    \* SimulationEnvironment.conversations: pair of ids -> frames left
  decrements,       \* history: pair of ids -> the times its timer was decremented
  id_counter        \* Blob._id_counter

sockVars == <<ws, sent, inbox, arrived, nread>>
connVars == <<cpc, ack>>
recvVars == <<rpc, rerr, rstart, turn, delivered>>
normVars == <<npc, ninput, neot, nresult>>
setupVars == <<spc, config, request>>
simVars == <<blobs, conversations, decrements, id_counter>>
streamVars == <<kpc, slpc, stop_event, recv_task, recv_result, nchunks, sidx, out,
                reads, writes>>
vars == <<vertexai, sockVars, connVars, recvVars, sendlog, closes, normVars, setupVars, simVars,
         streamVars>>

SocketInit ==
  /\ ws = "none" /\ sent = <<>> /\ inbox = <<>> /\ arrived = <<>> /\ nread = 0
SessionIdle ==
  /\ cpc = "start" /\ ack = <<>>
  /\ rpc = "none" /\ rerr = "none" /\ rstart = 0 /\ turn = <<>> /\ delivered = <<>>
  /\ sendlog = <<>> /\ closes = 0
NormIdle ==
  /\ npc = "idle" /\ ninput = PyNone /\ neot = PyBool(FALSE) /\ nresult = Raise("none")
SetupIdle ==
  /\ spc = "idle" /\ config = PyNone /\ request = <<>>
StreamIdle ==
  /\ kpc = "idle" /\ slpc = "none" /\ stop_event = FALSE
  /\ recv_task = "none" /\ recv_result = <<>> /\ nchunks = 0 /\ sidx = 0 /\ out = <<>>
  /\ reads = 0 /\ writes = 0

SimIdle ==
  /\ blobs = << >> /\ conversations = << >> /\ decrements = << >> /\ id_counter = 0

\* The setup frame of connect (request = json.dumps(request_dict)).
SetupFrame == [raw |-> "json", obj |-> [setup |-> [model |-> "model"]]]

Init ==
  /\ vertexai \in BOOLEAN
  /\ SocketInit /\ SessionIdle /\ NormIdle /\ SetupIdle /\ StreamIdle /\ SimIdle

\* ------------------------------------------------------------ the server
ServerSend(frame) ==
  /\ ws = "open"
  /\ Len(arrived) < MaxFrames
  /\ inbox' = Append(inbox, frame)
  /\ arrived' = Append(arrived, frame)
  /\ UNCHANGED <<vertexai, ws, sent, nread, connVars, recvVars, sendlog, closes, normVars, setupVars, simVars, streamVars>>

\* The peer closes the connection.
ServerClose ==
  /\ ws = "open"
  /\ ws' = "closed"
  /\ UNCHANGED <<vertexai, sent, inbox, arrived, nread, connVars, recvVars, sendlog, closes, normVars, setupVars, simVars, streamVars>>

\* -------------------------------------------------------------- connect
\* A connect that hands out the session as soon as the socket is open.
ConnectOpenYielding ==
  /\ cpc = "start"
  /\ \/ ws' = "open" /\ cpc' = "yielded"
     \/ ws' = "none" /\ cpc' = "failed"
  /\ UNCHANGED <<vertexai, sent, inbox, arrived, nread, ack, recvVars, sendlog, closes, normVars, setupVars, simVars, streamVars>>

\* async with connect(uri, additional_headers=headers) as ws
ConnectOpen ==
  /\ cpc = "start"
  /\ \/ ws' = "open" /\ cpc' = "opened"
     \/ ws' = "none" /\ cpc' = "failed"
  /\ UNCHANGED <<vertexai, sent, inbox, arrived, nread, ack, recvVars, sendlog, closes, normVars, setupVars, simVars, streamVars>>

\* await ws.send(request)
ConnectSendSetup ==
  /\ cpc = "opened"
  /\ IF ws = "open"
       THEN sent' = Append(sent, SetupFrame) /\ cpc' = "setup_sent"
       ELSE sent' = sent /\ cpc' = "failed"
  /\ UNCHANGED <<vertexai, ws, inbox, arrived, nread, ack, recvVars, sendlog, closes, normVars, setupVars, simVars, streamVars>>

\* A connect that hands out the session when the socket closed unanswered.
ConnectRecvAckLenient ==
  /\ cpc = "setup_sent"
  /\ \/ /\ inbox # <<>>
        /\ ack' = <<Head(inbox)>>
        /\ inbox' = Tail(inbox)
        /\ nread' = nread + 1
        /\ cpc' = "yielded"
     \/ /\ inbox = <<>> /\ ws = "closed"
        /\ cpc' = "yielded"
        /\ UNCHANGED <<ack, inbox, nread>>
  /\ UNCHANGED <<vertexai, ws, sent, arrived, recvVars, sendlog, closes, normVars, setupVars, simVars, streamVars>>

\* logger.info(await ws.recv(decode=False)); yield AsyncSession(...)
ConnectRecvAck ==
  /\ cpc = "setup_sent"
  /\ \/ /\ inbox # <<>>
        /\ ack' = <<Head(inbox)>>
        /\ inbox' = Tail(inbox)
        /\ nread' = nread + 1
        /\ cpc' = "yielded"
     \/ /\ inbox = <<>> /\ ws = "closed"
        /\ cpc' = "failed"
        /\ UNCHANGED <<ack, inbox, nread>>
  /\ UNCHANGED <<vertexai, ws, sent, arrived, recvVars, sendlog, closes, normVars, setupVars, simVars, streamVars>>

\* The caller leaves the async with block: the socket is closed.
ConnectExit ==
  /\ cpc = "yielded"
  /\ rpc # "recv"
  /\ cpc' = "exited"
  /\ ws' = "closed"
  /\ UNCHANGED <<vertexai, sent, inbox, arrived, nread, ack, recvVars, sendlog, closes, normVars, setupVars, simVars, streamVars>>

\* A Session object is in the caller's hands.
HasSession == cpc \in {"yielded", "exited"}

\* ----------------------------------------------------------------- send
SendInputs ==
  { PyStr("Hello world!"), RecordNoId, BlobRecordBad, PyInt(5), PyList(<<BlobRecord>>) }

\* The outcome of AsyncSession.send on an open or closed socket.
SendOutcome(input, end_of_turn) ==
  LET client_message == ParseClientMessage(vertexai, input, end_of_turn)
  IN IF ~client_message.ok THEN "normalize"
     ELSE IF ~JsonSerializable(client_message.msg) THEN "json"
     ELSE IF ws # "open" THEN "closed"
     ELSE "sent"

\* A send that holds its frame back until the end of the turn.
SendBatched(input, end_of_turn) ==
  /\ HasSession
  /\ Len(sendlog) < MaxSends
  /\ LET client_message == ParseClientMessage(vertexai, input, end_of_turn)
         outcome == SendOutcome(input, end_of_turn)
     IN /\ sent' = IF outcome = "sent" /\ end_of_turn.v
                     THEN Append(sent, JsonDumps(client_message.msg))
                     ELSE sent
        /\ sendlog' = Append(sendlog,
                             [input |-> input, end_of_turn |-> end_of_turn,
                              outcome |-> outcome])
  /\ UNCHANGED <<vertexai, ws, inbox, arrived, nread, connVars, recvVars, closes,
                 normVars, setupVars, simVars, streamVars>>

\* A send that opens its frame on the socket before normalising.
SendEager(input, end_of_turn) ==
  /\ HasSession
  /\ Len(sendlog) < MaxSends
  /\ LET client_message == ParseClientMessage(vertexai, input, end_of_turn)
         outcome == SendOutcome(input, end_of_turn)
     IN /\ sent' = IF outcome = "sent"
                     THEN Append(sent, JsonDumps(client_message.msg))
                     ELSE IF ws = "open"
                       THEN Append(sent, [raw |-> "partial"])
                       ELSE sent
        /\ sendlog' = Append(sendlog,
                             [input |-> input, end_of_turn |-> end_of_turn,
                              outcome |-> outcome])
  /\ UNCHANGED <<vertexai, ws, inbox, arrived, nread, connVars, recvVars, closes,
                 normVars, setupVars, simVars, streamVars>>

\* AsyncSession.send(input=input, end_of_turn=end_of_turn)
Send(input, end_of_turn) ==
  /\ HasSession
  /\ Len(sendlog) < MaxSends
  /\ LET client_message == ParseClientMessage(vertexai, input, end_of_turn)
         outcome == SendOutcome(input, end_of_turn)
     IN /\ sent' = IF outcome = "sent"
                     THEN Append(sent, JsonDumps(client_message.msg))
                     ELSE sent
        /\ sendlog' = Append(sendlog,
                             [input |-> input, end_of_turn |-> end_of_turn,
                              outcome |-> outcome])
  /\ UNCHANGED <<vertexai, ws, inbox, arrived, nread, connVars, recvVars, closes,
                 normVars, setupVars, simVars, streamVars>>

\* -------------------------------------------------------------- receive
\* A receive() that drops the frame buffered at the start of a turn.
ReceiveCallSkipping ==
  /\ HasSession
  /\ rpc # "recv"
  /\ rpc' = "recv"
  /\ rstart' = nread
  /\ turn' = <<>>
  /\ rerr' = "none"
  /\ inbox' = IF inbox # <<>> THEN Tail(inbox) ELSE inbox
  /\ UNCHANGED <<vertexai, ws, sent, arrived, nread, connVars, delivered, sendlog, closes, normVars, setupVars, simVars, streamVars>>

\* The caller invokes receive() and starts iterating; a generator left
\* suspended at a yield is abandoned.
ReceiveCall ==
  /\ HasSession
  /\ rpc # "recv"
  /\ rpc' = "recv"
  /\ rstart' = nread
  /\ turn' = <<>>
  /\ rerr' = "none"
  /\ UNCHANGED <<vertexai, sockVars, connVars, delivered, sendlog, closes, normVars, setupVars, simVars, streamVars>>

\* A receive() that ends its turn at any server content.
ReceiveFrameEndingOnContent ==
  /\ rpc = "recv"
  /\ inbox # <<>>
  /\ LET raw_response == Head(inbox)
         result == DecodeFrame(vertexai, raw_response)
     IN /\ inbox' = Tail(inbox)
        /\ nread' = nread + 1
        /\ IF JsonFails(raw_response)
             THEN /\ rpc' = "raised"
                  /\ rerr' = "parse"
                  /\ delivered' = Append(delivered, [ev |-> "error", frame |-> raw_response])
                  /\ turn' = turn
             ELSE /\ rpc' = IF Has(result, "server_content") THEN "yield_last" ELSE "yield"
                  /\ rerr' = rerr
                  /\ delivered' = Append(delivered, [ev |-> "message", msg |-> result])
                  /\ turn' = Append(turn, result)
  /\ UNCHANGED <<vertexai, ws, sent, arrived, connVars, rstart, sendlog, closes, normVars, setupVars, simVars, streamVars>>

\* A _receive that closes the socket when the body does not parse.
ReceiveFrameClosing ==
  /\ rpc = "recv"
  /\ inbox # <<>>
  /\ LET raw_response == Head(inbox)
         result == DecodeFrame(vertexai, raw_response)
     IN /\ inbox' = Tail(inbox)
        /\ nread' = nread + 1
        /\ IF JsonFails(raw_response)
             THEN /\ rpc' = "raised"
                  /\ rerr' = "parse"
                  /\ delivered' = Append(delivered, [ev |-> "error", frame |-> raw_response])
                  /\ turn' = turn
                  /\ ws' = "closed"
             ELSE /\ rpc' = IF EndsTurn(result) THEN "yield_last" ELSE "yield"
                  /\ rerr' = rerr
                  /\ delivered' = Append(delivered, [ev |-> "message", msg |-> result])
                  /\ turn' = Append(turn, result)
                  /\ ws' = ws
  /\ UNCHANGED <<vertexai, sent, arrived, connVars, rstart, sendlog, closes, normVars, setupVars, simVars, streamVars>>

\* result := await self._receive(), then the yield of the loop body
ReceiveFrame ==
  /\ rpc = "recv"
  /\ inbox # <<>>
  /\ LET raw_response == Head(inbox)
         result == DecodeFrame(vertexai, raw_response)
     IN /\ inbox' = Tail(inbox)
        /\ nread' = nread + 1
        /\ IF JsonFails(raw_response)
             THEN /\ rpc' = "raised"
                  /\ rerr' = "parse"
                  /\ delivered' = Append(delivered, [ev |-> "error", frame |-> raw_response])
                  /\ turn' = turn
             ELSE /\ rpc' = IF EndsTurn(result) THEN "yield_last" ELSE "yield"
                  /\ rerr' = rerr
                  /\ delivered' = Append(delivered, [ev |-> "message", msg |-> result])
                  /\ turn' = Append(turn, result)
  /\ UNCHANGED <<vertexai, ws, sent, arrived, connVars, rstart, sendlog, closes, normVars, setupVars, simVars, streamVars>>

\* self._ws.recv raises ConnectionClosed
ReceiveClosed ==
  /\ rpc = "recv"
  /\ inbox = <<>>
  /\ ws = "closed"
  /\ rpc' = "raised"
  /\ rerr' = "closed"
  /\ UNCHANGED <<vertexai, sockVars, connVars, rstart, turn, delivered, sendlog, closes, normVars, setupVars, simVars, streamVars>>

\* The caller asks for the next message: after `yield result; break` the
\* generator ends, after `yield result` it reads again.
ReceiveResume ==
  /\ rpc \in {"yield", "yield_last"}
  /\ rpc' = IF rpc = "yield_last" THEN "ended" ELSE "recv"
  /\ UNCHANGED <<vertexai, sockVars, connVars, rerr, rstart, turn, delivered, sendlog, closes, normVars, setupVars, simVars, streamVars>>

\* self._ws.close() of the websockets connection: it closes an open
\* connection and does nothing on a closed one.
WsClose(state) == "closed"

\* A close() that gives the socket up after closing it, so that a second
\* call finds none.
CloseReleasing ==
  /\ HasSession
  /\ closes < MaxCloses
  /\ ws' = IF ws = "closed" THEN "none" ELSE WsClose(ws)
  /\ closes' = closes + 1
  /\ UNCHANGED <<vertexai, sent, inbox, arrived, nread, connVars, recvVars, sendlog,
                 normVars, setupVars, simVars, streamVars>>

\* AsyncSession.close: await self._ws.close()
Close ==
  /\ HasSession
  /\ closes < MaxCloses
  /\ ws' = WsClose(ws)
  /\ closes' = closes + 1
  /\ UNCHANGED <<vertexai, sent, inbox, arrived, nread, connVars, recvVars, sendlog,
                 normVars, setupVars, simVars, streamVars>>

\* The session of a receiver: the handshake, the server and receive().
\* To a receiver a close() of its own reads as ServerClose; close() is an
\* action of the sender's session below.
Next ==
  \/ \E frame \in ServerFrames : ServerSend(frame)
  \/ ServerClose
  \/ ConnectOpen
  \/ ConnectSendSetup
  \/ ConnectRecvAck
  \/ ConnectExit
  \/ ReceiveCall
  \/ ReceiveFrame
  \/ ReceiveClosed
  \/ ReceiveResume

Spec == Init /\ [][Next]_vars

\* ------------------------------------------- the session of a sender
\* What the server answers to the setup frame.
AckFrames == { FrameSetupAck, FrameGarbage }

SendNext ==
  \/ \E frame \in AckFrames : ServerSend(frame)
  \/ ServerClose
  \/ ConnectOpen
  \/ ConnectSendSetup
  \/ ConnectRecvAck
  \/ ConnectExit
  \/ \E input \in SendInputs, end_of_turn \in EndOfTurns : Send(input, end_of_turn)
  \/ Close

SendSpec == Init /\ [][SendNext]_vars

\* ------------------------------------------------- normalisation alone
NormInit ==
  /\ vertexai \in BOOLEAN
  /\ SocketInit /\ SessionIdle /\ SetupIdle /\ StreamIdle /\ SimIdle
  /\ npc = "called"
  /\ ninput \in NormInputs
  /\ neot \in EndOfTurns
  /\ nresult = Raise("none")

\* client_message = self._parse_client_message(input, end_of_turn)
Normalize ==
  /\ npc = "called"
  /\ nresult' = ParseClientMessage(vertexai, ninput, neot)
  /\ npc' = "returned"
  /\ UNCHANGED <<vertexai, sockVars, connVars, recvVars, sendlog, closes, ninput, neot,
                 setupVars, simVars, streamVars>>

NormNext == Normalize

NormSpec == NormInit /\ [][NormNext]_vars

\* ------------------------------------------------ setup request alone
\* connect is given a config and builds its setup request.
SetupInit ==
  /\ vertexai \in BOOLEAN
  /\ SocketInit /\ SessionIdle /\ NormIdle /\ StreamIdle /\ SimIdle
  /\ spc = "called"
  /\ config \in ConfigInputs
  /\ request = <<>>

\* connect, lines 855-916: request_dict of the dialect
BuildSetup ==
  /\ spc = "called"
  /\ request' = RequestDict(vertexai, Model, config)
  /\ spc' = "built"
  /\ UNCHANGED <<vertexai, sockVars, connVars, recvVars, sendlog, closes, normVars,
                 config, simVars, streamVars>>

SetupNext == BuildSetup

SetupSpec == SetupInit /\ [][SetupNext]_vars

\* --------------------------------------------------------- start_stream
\* The chunks of the source and the MIME type given to start_stream.
ChunkData == <<"c1", "c2", "c3", "c4">>
MimeType  == PyStr("audio/pcm")

\* types.LiveClientRealtimeInput(media_chunks=[types.Blob(data=data, mime_type=mime_type)])
ModelInput(data) ==
  TypedRealtimeInput(PyList(<< [t |-> "Blob", data |-> PyBytes(data), mime_type |-> MimeType] >>))

\* What the server sends during a stream.
StreamFrames == { FrameTurnComplete, FramePartial, FrameGarbage }

\* A session after its handshake, on which start_stream is called.
SessionStreaming ==
  /\ vertexai \in BOOLEAN
  /\ ws = "open" /\ sent = <<SetupFrame>> /\ inbox = <<>>
  /\ arrived = <<FrameSetupAck>> /\ nread = 1
  /\ cpc = "yielded" /\ ack = <<FrameSetupAck>>
  /\ rpc = "none" /\ rerr = "none" /\ rstart = 0 /\ turn = <<>> /\ delivered = <<>>
  /\ sendlog = <<>> /\ closes = 0
  /\ NormIdle /\ SetupIdle /\ SimIdle
  /\ kpc = "init" /\ slpc = "none" /\ stop_event = FALSE
  /\ recv_task = "none" /\ recv_result = <<>>
  /\ sidx = 0 /\ out = <<>>
  /\ reads = 0 /\ writes = 0

\* A session after its handshake, about to be given a source.
StreamInit ==
  /\ SessionStreaming
  /\ nchunks \in 0..MaxChunks

RecvTaskDone == recv_task \in {"result", "closed", "error", "cancelled"}

\* lines 180-193: the event, the send loop task, the first receive task,
\* up to the await of asyncio.wait
StartStream ==
  /\ kpc = "init"
  /\ stop_event' = FALSE
  /\ slpc' = "next"
  /\ recv_task' = "pending"
  /\ kpc' = "wait"
  /\ reads' = reads + 1
  /\ UNCHANGED <<vertexai, sockVars, connVars, recvVars, sendlog, closes, normVars, setupVars, simVars,
                 recv_result, nchunks, sidx, out, writes>>

\* _send_loop: one chunk of the source is wrapped and its write is issued
SendLoopChunk ==
  /\ slpc = "next"
  /\ sidx < nchunks
  /\ LET model_input == ModelInput(ChunkData[sidx + 1])
         client_message == ParseClientMessage(vertexai, model_input, PyBool(FALSE))
     IN IF client_message.ok /\ JsonSerializable(client_message.msg) /\ ws = "open"
          THEN /\ sent' = Append(sent, JsonDumps(client_message.msg))
               /\ slpc' = "sending" /\ writes' = writes + 1
          ELSE sent' = sent /\ slpc' = "failed" /\ writes' = writes
  /\ sidx' = sidx + 1
  /\ UNCHANGED <<vertexai, ws, inbox, arrived, nread, connVars, recvVars, sendlog, closes,
                 normVars, setupVars, simVars, kpc, stop_event, recv_task, recv_result, nchunks, out,
                 reads>>

\* _send_loop: await self._ws.send returns
SendLoopSent ==
  /\ slpc = "sending"
  /\ slpc' = "sleep"
  /\ writes' = writes - 1
  /\ UNCHANGED <<vertexai, sockVars, connVars, recvVars, sendlog, closes, normVars, setupVars, simVars,
                 kpc, stop_event, recv_task, recv_result, nchunks, sidx, out, reads>>

\* _send_loop: await asyncio.sleep(10**-12) returns
SendLoopSleep ==
  /\ slpc = "sleep"
  /\ slpc' = "next"
  /\ UNCHANGED <<vertexai, sockVars, connVars, recvVars, sendlog, closes, normVars, setupVars, simVars,
                 kpc, stop_event, recv_task, recv_result, nchunks, sidx, out, reads, writes>>

\* A send loop that sets the event on its way out whatever ended it.
SendLoopEndAlways ==
  /\ \/ slpc = "next" /\ sidx = nchunks
     \/ slpc = "failed" /\ ~stop_event
  /\ stop_event' = TRUE
  /\ slpc' = IF slpc = "failed" THEN "failed" ELSE "done"
  /\ UNCHANGED <<vertexai, sockVars, connVars, recvVars, sendlog, closes, normVars, setupVars, simVars,
                 kpc, recv_task, recv_result, nchunks, sidx, out, reads, writes>>

\* _send_loop: the source is exhausted, stop_event.set()
SendLoopEnd ==
  /\ slpc = "next"
  /\ sidx = nchunks
  /\ stop_event' = TRUE
  /\ slpc' = "done"
  /\ UNCHANGED <<vertexai, sockVars, connVars, recvVars, sendlog, closes, normVars, setupVars, simVars,
                 kpc, recv_task, recv_result, nchunks, sidx, out, reads, writes>>

\* The receive task: _receive reads and decodes one frame
RecvTaskFrame ==
  /\ recv_task = "pending"
  /\ inbox # <<>>
  /\ LET raw_response == Head(inbox)
     IN /\ inbox' = Tail(inbox)
        /\ nread' = nread + 1
        /\ IF JsonFails(raw_response)
             THEN recv_task' = "error" /\ recv_result' = <<>>
             ELSE /\ recv_task' = "result"
                  /\ recv_result' = <<DecodeFrame(vertexai, raw_response)>>
  /\ reads' = reads - 1
  /\ UNCHANGED <<vertexai, ws, sent, arrived, connVars, recvVars, sendlog, closes, normVars, setupVars, simVars,
                 kpc, slpc, stop_event, nchunks, sidx, out, writes>>

\* The receive task: self._ws.recv raises ConnectionClosed
RecvTaskClosed ==
  /\ recv_task = "pending"
  /\ inbox = <<>>
  /\ ws = "closed"
  /\ recv_task' = "closed"
  /\ reads' = reads - 1
  /\ UNCHANGED <<vertexai, sockVars, connVars, recvVars, sendlog, closes, normVars, setupVars, simVars,
                 kpc, slpc, stop_event, recv_result, nchunks, sidx, out, writes>>

\* The receive task unwinds after recv_task.cancel()
RecvTaskCancelled ==
  /\ recv_task = "cancelling"
  /\ recv_task' = "cancelled"
  /\ reads' = reads - 1
  /\ UNCHANGED <<vertexai, sockVars, connVars, recvVars, sendlog, closes, normVars, setupVars, simVars,
                 kpc, slpc, stop_event, recv_result, nchunks, sidx, out, writes>>


\* A coordinator that waits for the receive task alone.
CoordWakeOnReceiveOnly ==
  /\ kpc = "wait"
  /\ recv_task \in {"result", "closed", "error"}
  /\ CASE recv_task = "result" ->
            /\ out' = Append(out, recv_result[1])
            /\ kpc' = "yield"
            /\ recv_task' = recv_task
       [] recv_task = "closed" ->
            /\ kpc' = "done"
            /\ UNCHANGED <<out, recv_task>>
       [] recv_task = "error" ->
            /\ kpc' = "raised"
            /\ UNCHANGED <<out, recv_task>>
  /\ UNCHANGED <<vertexai, sockVars, connVars, recvVars, sendlog, closes, normVars, setupVars, simVars,
                 slpc, stop_event, recv_result, nchunks, sidx, reads, writes>>

\* A coordinator that leaves the loop without cancelling the receive task.
CoordWakeNoCancel ==
  /\ kpc = "wait"
  /\ recv_task \in {"result", "closed", "error"} \/ stop_event
  /\ CASE recv_task = "result" ->
            /\ out' = Append(out, recv_result[1])
            /\ kpc' = "yield"
            /\ recv_task' = recv_task
       [] recv_task = "closed" ->
            /\ kpc' = "done"
            /\ UNCHANGED <<out, recv_task>>
       [] recv_task = "error" ->
            /\ kpc' = "raised"
            /\ UNCHANGED <<out, recv_task>>
       [] OTHER ->
            /\ kpc' = "done"
            /\ UNCHANGED <<out, recv_task>>
  /\ UNCHANGED <<vertexai, sockVars, connVars, recvVars, sendlog, closes, normVars, setupVars, simVars,
                 slpc, stop_event, recv_result, nchunks, sidx, reads, writes>>

\* A coordinator that lets the ConnectionClosed of the receive task escape.
CoordWakeRaisingOnClosed ==
  /\ kpc = "wait"
  /\ recv_task \in {"result", "closed", "error"} \/ stop_event
  /\ CASE recv_task = "result" ->
            /\ out' = Append(out, recv_result[1])
            /\ kpc' = "yield"
            /\ recv_task' = recv_task
       [] recv_task \in {"closed", "error"} ->
            /\ kpc' = "raised"
            /\ UNCHANGED <<out, recv_task>>
       [] OTHER ->
            /\ recv_task' = "cancelling"
            /\ kpc' = "cancel"
            /\ out' = out
  /\ UNCHANGED <<vertexai, sockVars, connVars, recvVars, sendlog, closes, normVars, setupVars, simVars,
                 slpc, stop_event, recv_result, nchunks, sidx, reads, writes>>

\* A coordinator whose wait times out: it loops with the receive task
\* still pending and creates another one.
CoordWakeOnTimeout ==
  /\ kpc = "wait"
  /\ CASE recv_task = "result" ->
            /\ out' = Append(out, recv_result[1])
            /\ kpc' = "yield"
            /\ UNCHANGED <<recv_task, reads>>
       [] recv_task = "closed" ->
            /\ kpc' = "done"
            /\ UNCHANGED <<out, recv_task, reads>>
       [] recv_task = "error" ->
            /\ kpc' = "raised"
            /\ UNCHANGED <<out, recv_task, reads>>
       [] OTHER ->
            IF stop_event
              THEN /\ recv_task' = "cancelling"
                   /\ kpc' = "cancel"
                   /\ UNCHANGED <<out, reads>>
              ELSE /\ recv_task' = "pending"
                   /\ reads' = reads + 1
                   /\ UNCHANGED <<kpc, out>>
  /\ UNCHANGED <<vertexai, sockVars, connVars, recvVars, sendlog, closes, normVars, setupVars, simVars,
                 slpc, stop_event, recv_result, nchunks, sidx, writes>>

\* A coordinator that starts the next receive task before it yields the
\* message of the finished one.
CoordWakeReadingAhead ==
  /\ kpc = "wait"
  /\ recv_task \in {"result", "closed", "error"} \/ stop_event
  /\ CASE recv_task = "result" ->
            /\ out' = Append(out, recv_result[1])
            /\ kpc' = "yield"
            /\ recv_task' = "pending"
            /\ reads' = reads + 1
       [] recv_task = "closed" ->
            /\ kpc' = "done"
            /\ UNCHANGED <<out, recv_task, reads>>
       [] recv_task = "error" ->
            /\ kpc' = "raised"
            /\ UNCHANGED <<out, recv_task, reads>>
       [] OTHER ->
            /\ recv_task' = "cancelling"
            /\ kpc' = "cancel"
            /\ UNCHANGED <<out, reads>>
  /\ UNCHANGED <<vertexai, sockVars, connVars, recvVars, sendlog, closes, normVars, setupVars, simVars,
                 slpc, stop_event, recv_result, nchunks, sidx, writes>>

\* A coordinator that tests the stop event before the receive task.
CoordWakeStopFirst ==
  /\ kpc = "wait"
  /\ recv_task \in {"result", "closed", "error"} \/ stop_event
  /\ CASE stop_event /\ recv_task = "pending" ->
            /\ recv_task' = "cancelling"
            /\ kpc' = "cancel"
            /\ out' = out
       [] stop_event /\ recv_task # "pending" ->
            /\ kpc' = "done"
            /\ UNCHANGED <<out, recv_task>>
       [] recv_task = "result" ->
            /\ out' = Append(out, recv_result[1])
            /\ kpc' = "yield"
            /\ recv_task' = recv_task
       [] recv_task = "closed" ->
            /\ kpc' = "done"
            /\ UNCHANGED <<out, recv_task>>
       [] recv_task = "error" ->
            /\ kpc' = "raised"
            /\ UNCHANGED <<out, recv_task>>
  /\ UNCHANGED <<vertexai, sockVars, connVars, recvVars, sendlog, closes, normVars, setupVars, simVars,
                 slpc, stop_event, recv_result, nchunks, sidx, reads, writes>>

\* lines 187-206: asyncio.wait returns; a finished receive task is yielded
\* (or raises), otherwise the loop ends and the receive task is cancelled
CoordWake ==
  /\ kpc = "wait"
  /\ recv_task \in {"result", "closed", "error"} \/ stop_event
  /\ CASE recv_task = "result" ->
            /\ out' = Append(out, recv_result[1])
            /\ kpc' = "yield"
            /\ recv_task' = recv_task
       [] recv_task = "closed" ->
            /\ kpc' = "done"
            /\ UNCHANGED <<out, recv_task>>
       [] recv_task = "error" ->
            /\ kpc' = "raised"
            /\ UNCHANGED <<out, recv_task>>
       [] OTHER ->
            /\ recv_task' = "cancelling"
            /\ kpc' = "cancel"
            /\ out' = out
  /\ UNCHANGED <<vertexai, sockVars, connVars, recvVars, sendlog, closes, normVars, setupVars, simVars,
                 slpc, stop_event, recv_result, nchunks, sidx, reads, writes>>

\* The caller of start_stream asks for the next message.
CoordResume ==
  /\ kpc = "yield"
  /\ kpc' = "sleep"
  /\ UNCHANGED <<vertexai, sockVars, connVars, recvVars, sendlog, closes, normVars, setupVars, simVars,
                 slpc, stop_event, recv_task, recv_result, nchunks, sidx, out, reads, writes>>

\* A coordinator that ends its loop at a message that completes a turn,
\* as receive() does.
CoordAfterSleepEndingTurn ==
  /\ kpc = "sleep"
  /\ IF stop_event \/ EndsTurn(recv_result[1])
       THEN kpc' = "done" /\ recv_task' = recv_task /\ reads' = reads
       ELSE kpc' = "wait" /\ recv_task' = "pending" /\ reads' = reads + 1
  /\ UNCHANGED <<vertexai, sockVars, connVars, recvVars, sendlog, closes, normVars, setupVars, simVars,
                 slpc, stop_event, recv_result, nchunks, sidx, out, writes>>

\* lines 197, 184-186, 200: after the sleep the loop test; a new receive
\* task, or the end (the last receive task is done)
CoordAfterSleep ==
  /\ kpc = "sleep"
  /\ IF stop_event
       THEN kpc' = "done" /\ recv_task' = recv_task /\ reads' = reads
       ELSE kpc' = "wait" /\ recv_task' = "pending" /\ reads' = reads + 1
  /\ UNCHANGED <<vertexai, sockVars, connVars, recvVars, sendlog, closes, normVars, setupVars, simVars,
                 slpc, stop_event, recv_result, nchunks, sidx, out, writes>>

\* lines 203-206: await recv_task returns
CoordSettled ==
  /\ kpc = "cancel"
  /\ RecvTaskDone
  /\ kpc' = "done"
  /\ UNCHANGED <<vertexai, sockVars, connVars, recvVars, sendlog, closes, normVars, setupVars, simVars,
                 slpc, stop_event, recv_task, recv_result, nchunks, sidx, out, reads, writes>>

StreamNext ==
  \/ \E frame \in StreamFrames : ServerSend(frame)
  \/ ServerClose
  \/ StartStream
  \/ SendLoopChunk
  \/ SendLoopSent
  \/ SendLoopSleep
  \/ SendLoopEnd
  \/ RecvTaskFrame
  \/ RecvTaskClosed
  \/ RecvTaskCancelled
  \/ CoordWake
  \/ CoordResume
  \/ CoordAfterSleep
  \/ CoordSettled

StreamSpec == StreamInit /\ [][StreamNext]_vars

\* The event loop runs every task that can run, and the caller keeps
\* asking for the next message; the server owes nothing.
StreamFairness ==
  /\ WF_vars(StartStream)
  /\ WF_vars(SendLoopChunk) /\ WF_vars(SendLoopSent)
  /\ WF_vars(SendLoopSleep) /\ WF_vars(SendLoopEnd)
  /\ WF_vars(RecvTaskFrame) /\ WF_vars(RecvTaskClosed) /\ WF_vars(RecvTaskCancelled)
  /\ WF_vars(CoordWake) /\ WF_vars(CoordResume) /\ WF_vars(CoordAfterSleep)
  /\ WF_vars(CoordSettled)

FairStreamSpec == StreamSpec /\ StreamFairness

\* ------------------------------------------- start_stream, one reply
\* The stream of a source of ScenarioChunks chunks on a socket that stays
\* open, with a server that answers the second chunk with one frame: a
\* server content with turnComplete true, sent before the source ends.
ScenarioInit ==
  /\ SessionStreaming
  /\ nchunks = ScenarioChunks

ScenarioServerSend ==
  /\ sidx >= 2 /\ ~stop_event
  /\ Len(arrived) = 1
  /\ ServerSend(FrameTurnComplete)

ScenarioNext ==
  \/ ScenarioServerSend
  \/ StartStream
  \/ SendLoopChunk
  \/ SendLoopSent
  \/ SendLoopSleep
  \/ SendLoopEnd
  \/ RecvTaskFrame
  \/ RecvTaskCancelled
  \/ CoordWake
  \/ CoordResume
  \/ CoordAfterSleep
  \/ CoordSettled

ScenarioSpec == ScenarioInit /\ [][ScenarioNext]_vars

FairScenarioSpec == ScenarioSpec /\ StreamFairness

\* ------------------------------------------- the blob simulation (main.py)
\* Positions are left out: which blobs overlap when handle_interactions
\* measures them is an input of the step. Of a velocity the model keeps
\* whether it is (0, 0) for certain (moving = FALSE) or can be anything
\* (moving = TRUE): the random wander, the seek force, the energy and the
\* separation give a free blob a velocity the model does not follow.
INTERACTION_MESSAGES ==
  << "Hello!", "How are you?", "Nice meeting you!", "Interesting!", "Goodbye!" >>

\* Blob.__init__: a fresh blob with the next id
Blob(id) ==
  [id |-> id, moving |-> TRUE, conversed_with |-> {},
   message |-> PyNone, message_timer |-> 0]

\* Blob.update_message
update_message(blob) ==
  LET timer == IF blob.message_timer > 0 THEN blob.message_timer - 1
               ELSE blob.message_timer
  IN [blob EXCEPT !.message_timer = timer,
                  !.message = IF timer <= 0 THEN PyNone ELSE @]

\* Blob.set_message
set_message(blob, message) ==
  [blob EXCEPT !.message = message, !.message_timer = MESSAGE_DURATION]

\* frozenset({blob1.id, blob2.id})
PairKey(blob1, blob2) == {blob1.id, blob2.id}

\* apply_behaviors skips a blob whose message is not None
Skipped(blob) == ~IsNone(blob.message)

\* update, lines 217-222: apply_behaviors, then move, check_wall_collision
\* and update_message of every blob. Wander and seek change the velocity
\* of a blob that is not skipped; friction, a wall and an empty energy
\* turn a zero velocity into zero.
MoveBlobs(bs) ==
  [i \in 1..Len(bs) |->
     update_message([bs[i] EXCEPT !.moving = IF Skipped(bs[i]) THEN @ ELSE TRUE])]

\* A test that does not look at conversed_with.
FreeAgain(bs, convs, i, j) ==
  /\ IsNone(bs[i].message) /\ IsNone(bs[j].message)
  /\ PairKey(bs[i], bs[j]) \notin DOMAIN convs

\* handle_interactions, lines 168-172 and 179, for the blobs at list
\* positions i and j as the loop found them: they have not conversed,
\* neither has a message, and the pair has no conversation
Free(bs, convs, i, j) ==
  /\ bs[j].id \notin bs[i].conversed_with
  /\ IsNone(bs[i].message) /\ IsNone(bs[j].message)
  /\ PairKey(bs[i], bs[j]) \notin DOMAIN convs

\* The pairs that reach the distance test of handle_interactions at all.
Measured(bs, convs) ==
  {PairKey(bs[i], bs[j]) : <<i, j>> \in {q \in (1..Len(bs)) \X (1..Len(bs)) :
                                          q[1] < q[2] /\ Free(bs, convs, q[1], q[2])}}

\* The double loop of handle_interactions (for i in range(n): for j in
\* range(i + 1, n)) from the list positions (i, j) on: the pairs it starts a
\* conversation for. busy are the blobs that were given a message earlier
\* in the loop (line 171 skips them); touching are the pairs closer than
\* their radii (line 177).
RECURSIVE StartedFrom(_, _, _, _, _, _)
StartedFrom(bs, convs, touching, i, j, busy) ==
  IF i > Len(bs) THEN {}
  ELSE IF j > Len(bs) THEN StartedFrom(bs, convs, touching, i + 1, i + 2, busy)
  ELSE IF /\ Free(bs, convs, i, j)
          /\ {i, j} \cap busy = {}
          /\ PairKey(bs[i], bs[j]) \in touching
    THEN {<<i, j>>} \cup StartedFrom(bs, convs, touching, i, j + 1, busy \cup {i, j})
    ELSE StartedFrom(bs, convs, touching, i, j + 1, busy)

\* lines 178-186 for the pairs started: the timer of the pair, the message
\* of both blobs (msgOf is the random.choice for the pair), zero velocity
StartConversations(bs, convs, started, msgOf) ==
  [blobs |->
     [i \in 1..Len(bs) |->
        IF \E q \in started : i \in {q[1], q[2]}
          THEN LET q == CHOOSE q \in started : i \in {q[1], q[2]}
               IN [set_message(bs[i], msgOf[PairKey(bs[q[1]], bs[q[2]])])
                     EXCEPT !.moving = FALSE]
          ELSE bs[i]],
   conversations |->
     [p \in DOMAIN convs \cup {PairKey(bs[q[1]], bs[q[2]]) : q \in started} |->
        IF p \in DOMAIN convs THEN convs[p] ELSE MESSAGE_DURATION]]

\* A handle_interactions that does not look whether a blob is in a
\* conversation already.
handle_interactions_busy(bs, convs, touching, msgOf) ==
  StartConversations(
    bs, convs,
    {q \in (1..Len(bs)) \X (1..Len(bs)) :
       /\ q[1] < q[2]
       /\ bs[q[2]].id \notin bs[q[1]].conversed_with
       /\ PairKey(bs[q[1]], bs[q[2]]) \notin DOMAIN convs
       /\ PairKey(bs[q[1]], bs[q[2]]) \in touching},
    msgOf)

\* handle_interactions
handle_interactions(bs, convs, touching, msgOf) ==
  StartConversations(
    bs, convs,
    StartedFrom(bs, convs, touching, 1, 2, {}),
    msgOf)

\* An update_conversations that keeps a conversation one frame longer.
update_conversations_late(bs, convs) ==
  [blobs |->
     [i \in 1..Len(bs) |->
        IF \E p \in DOMAIN convs : bs[i].id \in p /\ convs[p] - 1 < 0
          THEN [bs[i] EXCEPT
                  !.moving = TRUE,
                  !.message = PyNone,
                  !.conversed_with =
                     @ \cup {id \in UNION {p \in DOMAIN convs :
                                             bs[i].id \in p /\ convs[p] - 1 < 0} :
                               id # bs[i].id}]
          ELSE bs[i]],
   conversations |->
     [p \in {q \in DOMAIN convs : convs[q] - 1 >= 0} |-> convs[p] - 1]]

\* update_conversations: every timer goes down by one; a pair at zero is
\* given its separation velocity, loses its messages, is recorded in
\* conversed_with and deleted
update_conversations(bs, convs) ==
  [blobs |->
     [i \in 1..Len(bs) |->
        IF \E p \in DOMAIN convs : bs[i].id \in p /\ convs[p] - 1 <= 0
          THEN [bs[i] EXCEPT
                  !.moving = TRUE,
                  !.message = PyNone,
                  !.conversed_with =
                     @ \cup {id \in UNION {p \in DOMAIN convs :
                                             bs[i].id \in p /\ convs[p] - 1 <= 0} :
                               id # bs[i].id}]
          ELSE bs[i]],
   conversations |->
     [p \in {q \in DOMAIN convs : convs[q] - 1 > 0} |-> convs[p] - 1]]

\* SimulationEnvironment.__init__ with num_blobs from 0 to MaxBlobs
SimInit ==
  /\ vertexai = FALSE
  /\ SocketInit /\ SessionIdle /\ NormIdle /\ SetupIdle /\ StreamIdle
  /\ \E num_blobs \in 0..MaxBlobs :
       /\ blobs = [i \in 1..num_blobs |-> Blob(i - 1)]
       /\ id_counter = num_blobs
  /\ conversations = << >>
  /\ decrements = << >>

\* add_blob (a mouse click between two frames)
add_blob ==
  /\ id_counter < MaxBlobs
  /\ blobs' = Append(blobs, Blob(id_counter))
  /\ id_counter' = id_counter + 1
  /\ UNCHANGED <<vertexai, sockVars, connVars, recvVars, sendlog, closes, normVars,
                 setupVars, streamVars, conversations, decrements>>

\* update (run_step): one frame of the simulation. moved are the blobs
\* after apply_behaviors and the loop of move, check_wall_collision and
\* update_message; talking is the environment after handle_interactions,
\* env after update_conversations.
update ==
  /\ \E moved \in {MoveBlobs(blobs)} :
     \E touching \in SUBSET Measured(moved, conversations) :
     \E started \in {DOMAIN handle_interactions(
                                moved, conversations, touching,
                                [p \in touching |-> PyNone]).conversations
                      \ DOMAIN conversations} :
     \E msgOf \in [started -> {PyStr(INTERACTION_MESSAGES[k]) :
                                  k \in 1..Len(INTERACTION_MESSAGES)}] :
     \E talking \in {handle_interactions(moved, conversations, touching, msgOf)} :
     \E env \in {update_conversations(talking.blobs, talking.conversations)} :
       /\ blobs' = env.blobs
       /\ conversations' = env.conversations
       /\ decrements' =
            [p \in DOMAIN env.conversations |->
               IF p \in DOMAIN decrements THEN decrements[p] + 1 ELSE 1]
  /\ UNCHANGED <<vertexai, sockVars, connVars, recvVars, sendlog, closes, normVars,
                 setupVars, streamVars, id_counter>>

SimNext == update \/ add_blob

SimSpec == SimInit /\ [][SimNext]_vars

\* The main loop runs a step every frame.
FairSimSpec == SimSpec /\ WF_vars(update)

\* =============================================================== claims
\* What the caller of receive() gets for one frame: the decoded message,
\* or the parse error.
EventOf(frame) ==
  IF JsonFails(frame) THEN [ev |-> "error", frame |-> frame]
  ELSE [ev |-> "message", msg |-> DecodeFrame(vertexai, frame)]

\* C1: one invocation of receive() yields the decoded frames in arrival
\* order up to and including the first message with turn_complete = true,
\* ends there without reading another frame, and no other message ends it.
ReceiveYieldsOneTurn ==
  rpc \in {"recv", "yield", "yield_last", "ended"} =>
    /\ Len(turn) = nread - rstart
    /\ \A i \in 1..Len(turn) : turn[i] = DecodeFrame(vertexai, arrived[rstart + i])
    /\ \A i \in 1..Len(turn) :
         EndsTurn(turn[i]) <=> (i = Len(turn) /\ rpc \in {"yield_last", "ended"})
    /\ rpc \in {"yield", "yield_last", "ended"} => Len(turn) >= 1

\* A turn of a tool call and a final message has ended while a frame waits.
ReceiveTurnEnded ==
  /\ rpc = "ended"
  /\ Len(turn) = 2
  /\ Has(turn[1], "tool_call")
  /\ EndsTurn(turn[2])
  /\ inbox # <<>>

\* C2: over successive receive() invocations every frame read after the
\* handshake reaches the caller exactly once and in socket order (as its
\* message, or as its parse error), and no frame is dropped between
\* invocations: the unread frames are exactly the rest of what arrived.
ReceiveDeliversEachFrameOnce ==
  /\ Len(delivered) = nread - Len(ack)
  /\ \A i \in 1..Len(delivered) : delivered[i] = EventOf(arrived[Len(ack) + i])
  /\ inbox = SubSeq(arrived, nread + 1, Len(arrived))
  /\ rstart <= nread

\* A second invocation has delivered the message after a finished turn.
ReceiveSecondTurn ==
  /\ Len(delivered) >= 2
  /\ delivered[1].ev = "message" /\ EndsTurn(delivered[1].msg)
  /\ rstart = Len(ack) + 1
  /\ Len(turn) >= 1

\* The frames after the setup frame.
ContentFrames == SelectSeq(sent, LAMBDA f : f # SetupFrame)
\* The frame a send call writes.
FrameOfCall(call) ==
  JsonDumps(ParseClientMessage(vertexai, call.input, call.end_of_turn).msg)
Succeeded(call) == call.outcome = "sent"
NormalizeFails(call) == ~ParseClientMessage(vertexai, call.input, call.end_of_turn).ok

\* C3: each successful send writes exactly one frame, and the frames of
\* successive sends are on the socket in call order.
SendWritesOneFrame ==
  ContentFrames = Map(FrameOfCall, SelectSeq(sendlog, Succeeded))

\* Two different sends have succeeded.
SendTwoFrames ==
  /\ Len(sendlog) >= 2
  /\ Succeeded(sendlog[1]) /\ Succeeded(sendlog[2])
  /\ FrameOfCall(sendlog[1]) # FrameOfCall(sendlog[2])

\* The function responses of a tool-response input in one of the accepted
\* shapes (<<>> for any other input).
FunctionResponsesOf(input) ==
  IF IsFunctionResponseRecord(input) \/ input.t = "FunctionResponse" THEN <<input>>
  ELSE IF IsList(input) /\ input.items # <<>>
          /\ \A i \in 1..Len(input.items) : IsFunctionResponseRecord(input.items[i])
    THEN input.items
  ELSE IF (input.t = "LiveClientToolResponse" \/ IsDict(input))
          /\ "function_responses" \in DOMAIN input
          /\ IsList(input.function_responses)
    THEN input.function_responses.items
  ELSE <<>>

\* A well-formed tool response with a function response that has no id.
LacksId(input) ==
  LET frs == FunctionResponsesOf(input)
  IN /\ frs # <<>>
     /\ \A i \in 1..Len(frs) : AsFunctionResponseOk(frs[i])
     /\ \E i \in 1..Len(frs) : ~Truthy(Get(frs[i], "id"))

\* C4: a tool response holding a FunctionResponse without id fails with the
\* id-required error on dialect A and normalises to a ToolResponse on
\* dialect B, in every accepted input shape.
ToolResponseIdRequired ==
  (npc = "returned" /\ LacksId(ninput)) =>
    IF vertexai
      THEN nresult.ok /\ "tool_response" \in DOMAIN nresult.msg
      ELSE ~nresult.ok /\ nresult.err = FUNCTION_RESPONSE_REQUIRES_ID

\* C5: a send whose normalisation fails writes no frame and leaves the
\* socket and the session as they were.
SendErrorWritesNothing ==
  [][(Len(sendlog') = Len(sendlog) + 1 /\ NormalizeFails(sendlog'[Len(sendlog')]))
       => UNCHANGED <<ws, sent, inbox, arrived, nread, cpc, ack>>]_vars

\* A valid send has succeeded after a send that failed for a missing id.
SendAfterError ==
  /\ Len(sendlog) >= 2
  /\ NormalizeFails(sendlog[1])
  /\ ParseClientMessage(vertexai, sendlog[1].input, sendlog[1].end_of_turn).err
       = FUNCTION_RESPONSE_REQUIRES_ID
  /\ Succeeded(sendlog[2])
  /\ Len(ContentFrames) = 1

\* C6: reading a frame whose body does not parse makes receive raise the
\* parse error, consumes that frame only and leaves the socket and the
\* session open, so that the frames after it stay to be read.
ParseErrorLeavesSocketOpen ==
  [][(rpc = "recv" /\ inbox # <<>> /\ JsonFails(Head(inbox)) /\ nread' = nread + 1)
       => /\ rpc' = "raised" /\ rerr' = "parse"
          /\ ws' = ws /\ cpc' = cpc
          /\ inbox' = Tail(inbox)]_vars

\* After a parse error a following receive() delivered the next frame.
ReceiveAfterParseError ==
  /\ ws = "open"
  /\ \E i \in 1..Len(delivered) : \E j \in 1..Len(delivered) :
       /\ i < j
       /\ delivered[i].ev = "error"
       /\ delivered[j].ev = "message"

\* C7: the setup frame is the first frame on the socket and the only setup
\* frame; a session exists only after the setup frame was sent and one
\* acknowledgement frame was read; no other frame is written before that.
SetupFrameFirst ==
  /\ \A i \in 1..Len(sent) : (sent[i] = SetupFrame) <=> (i = 1)
  /\ HasSession => (Len(sent) >= 1 /\ Len(ack) = 1 /\ nread >= 1)
  /\ (Len(sent) > 1 \/ sendlog # <<>>) => HasSession

\* A content frame follows the setup frame.
ContentAfterHandshake ==
  /\ Len(sent) >= 2
  /\ Has(sent[2].obj, "client_content")

\* C8 as stated: a session is handed out only if the socket opened and a
\* well-formed acknowledgement was read.
ConnectNeedsWellFormedAck ==
  HasSession => (ws # "none" /\ Len(ack) = 1 /\ ~JsonFails(ack[1]))

\* C8, amended: a session is handed out only if the socket opened and one
\* frame, whatever its body, was read as acknowledgement; a failed open or
\* a socket closed before any frame arrived fails the attempt, and a failed
\* attempt has no session.
ConnectNeedsOpenAndAck ==
  /\ HasSession => (ws # "none" /\ Len(ack) = 1 /\ ack[1] = arrived[1])
  /\ (ws = "none" /\ cpc # "start") => cpc = "failed"
  /\ cpc = "failed" => (ack = <<>> /\ rpc = "none" /\ delivered = <<>> /\ sendlog = <<>>)

\* The attempt failed because the socket closed before an acknowledgement.
ConnectFailedUnanswered ==
  /\ cpc = "failed"
  /\ ws = "closed"
  /\ sent = <<SetupFrame>>

StreamStopped == kpc \in {"done", "raised"}

\* C9: under fair scheduling, with a finite source, sends that complete and
\* a caller that keeps consuming, start_stream eventually terminates, also
\* when no frame arrives any more.
StreamTerminates == <>(slpc = "failed" \/ StreamStopped)

\* start_stream ended with the source sent and a receive that got no frame.
StreamEndedWithoutFrame ==
  /\ kpc = "done"
  /\ slpc = "done"
  /\ nchunks >= 1 /\ sidx = nchunks
  /\ recv_task = "cancelled"
  /\ inbox = <<>> /\ ws = "open"

\* C10: a receive task is started only while the stop event is not set, and
\* when start_stream has stopped its last receive task is settled.
StreamSettlesReceive ==
  /\ [](StreamStopped => recv_task \notin {"pending", "cancelling"})
  /\ [][(recv_task' = "pending" /\ recv_task # "pending") => ~stop_event]_vars

\* start_stream stopped after cancelling a receive that was in flight.
StreamCancelledReceive ==
  /\ kpc = "done"
  /\ recv_task = "cancelled"
  /\ stop_event
  /\ out # <<>>

\* C11: when the socket is closed during a receive inside start_stream, the
\* coordinator leaves its loop without an error: what it yielded before
\* stays delivered, and once it has ended nothing more is yielded.
StreamClosedEndsNormally ==
  [][ /\ (kpc = "wait" /\ recv_task = "closed" /\ kpc' # kpc)
         => (kpc' = "done" /\ out' = out)
      /\ (kpc = "done") => (kpc' = "done" /\ out' = out) ]_vars

StreamClosedAfterMessage ==
  kpc = "done" /\ recv_task = "closed" /\ Len(out) >= 1

\* C13 as stated: while start_stream runs, at most one of the two tasks has
\* a socket operation issued and not yet completed; a write is never issued
\* while a read is in flight, nor a read while a write is in flight.
StreamOneSocketOperation == reads + writes <= 1

\* C13: while start_stream runs, each direction has at most one socket
\* operation in flight: at most one read of a receive task and at most one
\* write of the send loop (a read and a write do overlap).
StreamOneReadOneWrite ==
  /\ reads \in 0..1 /\ writes \in 0..1
  /\ (reads = 1) <=> (recv_task \in {"pending", "cancelling"})
  /\ (writes = 1) <=> (slpc = "sending")

StreamReadAndWriteInFlight ==
  reads = 1 /\ writes = 1 /\ recv_task = "pending" /\ slpc = "sending"

\* C12 as stated: with a source of three chunks and a server that sends one
\* turn-complete frame after the second chunk, in every interleaving
\* start_stream yields exactly one message, yields it before the source is
\* exhausted, does not stop at it, and ends without error once the source
\* has ended.
ScenarioYieldsBeforeSourceEnds ==
  /\ [](Len(out) <= 1)
  /\ []((stop_event /\ Len(arrived) = 2) => Len(out) = 1)
  /\ [](kpc = "done" => stop_event)
  /\ [](kpc # "raised")
  /\ <>(kpc = "done")

\* C12: in that scenario start_stream yields at most one message, namely
\* the frame when a receive task has read it before the coordinator sees
\* the stop event (else the frame is left unread); it does not stop at the
\* message, and ends without error, only once the source has ended.
ScenarioYieldsWhatWasRead ==
  /\ [](Len(out) <= 1)
  /\ [](kpc = "done" => (stop_event /\ sidx = nchunks /\ Len(out) = nread - 1))
  /\ [](kpc # "raised")
  /\ <>(kpc = "done")

ScenarioYieldedTheReply ==
  kpc = "done" /\ Len(out) = 1 /\ EndsTurn(out[1]) /\ sidx = ScenarioChunks

\* Inputs in the shapes send() declares for its input: a string, a blob as
\* record or typed, a function response as record or typed, a client
\* message, and lists of strings, of blobs and of function responses; every
\* function response carries an id.
SupportedInputs ==
  { PyStr("Hello world!"), PyStr("a"),
    BlobRecord, TypedBlob,
    RecordId, TypedFR(PyStr("id1")),
    TypedClientContent(PyBool(TRUE)),
    TypedRealtimeInput(PyList(<<TypedBlob>>)),
    TypedToolResponse(PyList(<<TypedFR(PyStr("id1"))>>)),
    PyList(<<PyStr("a"), PyStr("b")>>),
    PyList(<<TypedBlob>>), PyList(<<TypedBlob, TypedBlob>>),
    PyList(<<RecordId, RecordId2>>),
    PyList(<<TypedFR(PyStr("id1"))>>) }

Variants == {"client_content", "realtime_input", "tool_response"}

\* C14 as stated: normalisation is total on the supported input shapes: for
\* each of them, on either dialect and with either end_of_turn, it returns
\* a client message (and the same one every time).
NormalizeTotal ==
  (npc = "returned" /\ ninput \in SupportedInputs) =>
    (nresult.ok /\ DOMAIN nresult.msg \subseteq Variants)

\* C15: every message normalisation returns has exactly one of its three
\* variants (client_content, realtime_input, tool_response) and no other
\* key, on every return path and on both dialects.
NormalizeOneVariant ==
  (npc = "returned" /\ nresult.ok) =>
    /\ DOMAIN nresult.msg \subseteq Variants
    /\ Cardinality(DOMAIN nresult.msg \cap Variants) = 1

NormalizedCanonicalDict ==
  /\ npc = "returned" /\ nresult.ok
  /\ IsDict(ninput) /\ "turns" \in DOMAIN ninput
  /\ DOMAIN nresult.msg = {"client_content"}

EmptyInputs == { PyNone, PyStr(""), PyList(<<>>), [t |-> "dict"] }

\* C16: an empty input (None, the empty string, the empty list, the empty
\* record) normalises to a content update without turns and with
\* turn_complete true, whatever end_of_turn and the dialect are.
EmptyInputEndsTurn ==
  (npc = "returned" /\ ninput \in EmptyInputs) =>
    /\ nresult.ok
    /\ DOMAIN nresult.msg = {"client_content"}
    /\ "turns" \notin DOMAIN nresult.msg.client_content
    /\ nresult.msg.client_content.turn_complete = PyBool(TRUE)

EmptyListNotEndOfTurn ==
  /\ npc = "returned" /\ ninput = PyList(<<>>) /\ neot = PyBool(FALSE)
  /\ nresult.ok /\ nresult.msg.client_content.turn_complete = PyBool(TRUE)

\* C17: a single non-empty string s sent with end_of_turn e normalises to a
\* content update with exactly one turn holding exactly one text part
\* equal to s, and with turn_complete equal to e.
StringBecomesOneTurn ==
  (npc = "returned" /\ IsStr(ninput) /\ ninput.s # "") =>
    /\ nresult.ok
    /\ DOMAIN nresult.msg = {"client_content"}
    /\ LET client_content == nresult.msg.client_content
       IN /\ Len(client_content.turns.items) = 1
          /\ client_content.turns.items[1].parts = << [text |-> ninput.s] >>
          /\ client_content.turn_complete = neot

StringSentMidTurn ==
  /\ npc = "returned" /\ ninput = PyStr("Hello world!") /\ neot = PyBool(FALSE)
  /\ nresult.ok /\ nresult.msg.client_content.turn_complete = PyBool(FALSE)

\* C18: a record with data bytes and a mime_type m normalises to a realtime
\* chunk message with exactly one chunk, of MIME type m, carrying the data;
\* never to a content update or a tool response.
BlobRecordBecomesOneChunk ==
  (/\ npc = "returned" /\ IsDict(ninput)
   /\ Keys(ninput) = {"data", "mime_type"}
   /\ IsBytes(ninput.data) /\ IsStr(ninput.mime_type)) =>
    /\ nresult.ok
    /\ DOMAIN nresult.msg = {"realtime_input"}
    /\ LET media_chunks == nresult.msg.realtime_input.media_chunks.items
       IN /\ Len(media_chunks) = 1
          /\ media_chunks[1].mime_type = ninput.mime_type
          /\ media_chunks[1].data = Base64Str(ninput.data)

BlobRecordPngChunk ==
  /\ npc = "returned" /\ ninput = BlobRecordPng /\ nresult.ok
  /\ nresult.msg.realtime_input.media_chunks.items[1].mime_type = PyStr("image/png")

\* C19: on both dialects, decoding a server content frame keeps the value
\* of its turnComplete flag: the message the caller gets has turn_complete
\* true for true and false for false.
DecodeKeepsTurnComplete ==
  \A i \in 1..Len(delivered) :
    LET frame == arrived[Len(ack) + i]
    IN (/\ frame.raw = "json"
        /\ "serverContent" \in DOMAIN frame.obj
        /\ "turnComplete" \in DOMAIN frame.obj.serverContent) =>
         /\ delivered[i].ev = "message"
         /\ "server_content" \in DOMAIN delivered[i].msg
         /\ "turn_complete" \in DOMAIN delivered[i].msg.server_content
         /\ delivered[i].msg.server_content.turn_complete
              = frame.obj.serverContent.turnComplete

DecodedBothFlagValues ==
  /\ vertexai
  /\ \E i, j \in 1..Len(delivered) :
       /\ arrived[Len(ack) + i] = FrameNotComplete
       /\ delivered[i].msg.server_content.turn_complete = FALSE
       /\ arrived[Len(ack) + j] = FrameTurnComplete
       /\ delivered[j].msg.server_content.turn_complete = TRUE

\* C20: close() is idempotent: the first call leaves the session closed,
\* every further call leaves it closed as well, and no call fails.
CloseIsIdempotent ==
  closes >= 1 => (ws = "closed" /\ HasSession)

ClosedTwice ==
  closes = 2 /\ ws = "closed" /\ cpc = "yielded"

\* The response modalities of a setup request, None when it has none.
ResponseModalitiesOf(req) ==
  IF Has(req.setup, "generationConfig")
    THEN Get(req.setup.generationConfig, "responseModalities")
    ELSE PyNone

\* C21: when the caller gives no response modalities the setup request of
\* dialect B has generationConfig.responseModalities = ['AUDIO'] and that
\* of dialect A has no responseModalities; when the caller gives a list,
\* both dialects carry exactly that list.
SetupResponseModalities ==
  spc = "built" =>
    LET asked == Get(config, "response_modalities")
    IN IF ~IsNone(asked) THEN ResponseModalitiesOf(request) = asked
       ELSE IF vertexai
         THEN ResponseModalitiesOf(request) = PyList(<<PyStr("AUDIO")>>)
         ELSE /\ IsNone(ResponseModalitiesOf(request))
              /\ Has(request.setup, "generationConfig")
                   => ~Has(request.setup.generationConfig, "responseModalities")

SetupDefaultedToAudio ==
  /\ spc = "built" /\ vertexai
  /\ config.t = "LiveConnectConfig"
  /\ IsNone(config.response_modalities)
  /\ ~IsNone(config.generation_config)
  /\ request.setup.generationConfig.responseModalities = PyList(<<PyStr("AUDIO")>>)

\* C22: response modalities and speech config are merged into the one
\* generationConfig: for every combination of generation_config,
\* response_modalities and speech_config given or not, the fields of each
\* earlier step are still in generationConfig after the later steps, and
\* setup always holds the model id.
SetupMergesGenerationConfig ==
  spc = "built" =>
    LET generation_config == Get(config, "generation_config")
        response_modalities == Get(config, "response_modalities")
        speech_config == Get(config, "speech_config")
    IN /\ Has(request.setup, "model") /\ request.setup.model = Model
       /\ ~IsNone(generation_config) =>
            /\ Has(request.setup, "generationConfig")
            /\ \A k \in Keys(generation_config) :
                 /\ Has(request.setup.generationConfig, k)
                 /\ request.setup.generationConfig[k] = generation_config[k]
       /\ ~IsNone(response_modalities) =>
            /\ Has(request.setup, "generationConfig")
            /\ Has(request.setup.generationConfig, "responseModalities")
       /\ ~IsNone(speech_config) =>
            /\ Has(request.setup, "generationConfig")
            /\ Has(request.setup.generationConfig, "speechConfig")

SetupMergedThreeSteps ==
  /\ spc = "built" /\ ~vertexai
  /\ Has(request.setup, "generationConfig")
  /\ DOMAIN request.setup.generationConfig
       = {"temperature", "responseModalities", "speechConfig"}

\* C23: ambiguous lists are resolved in a fixed order: a list holding a
\* tool-response record becomes a tool response also when it holds
\* strings; a list holding a string and no such record becomes a content
\* update also when it holds blobs; only a list with neither becomes a
\* realtime message.
ListResolvedInOrder ==
  (npc = "returned" /\ IsList(ninput) /\ Truthy(ninput) /\ nresult.ok) =>
    LET items == ninput.items
        variant == CHOOSE k \in DOMAIN nresult.msg : TRUE
    IN IF AnyOf(IsFunctionResponseRecord, items) THEN variant = "tool_response"
       ELSE IF AnyOf(IsStr, items) THEN variant = "client_content"
       ELSE variant = "realtime_input"

ListOfStringAndRecordResolved ==
  /\ npc = "returned" /\ ninput = PyList(<<PyStr("a"), RecordId>>)
  /\ nresult.ok /\ DOMAIN nresult.msg = {"tool_response"}

\* A non-empty list of tool-response inputs: well-formed records and typed
\* FunctionResponse values.
IsToolResponseList(input) ==
  /\ IsList(input) /\ input.items # <<>>
  /\ \A i \in 1..Len(input.items) :
       \/ input.items[i].t = "FunctionResponse"
       \/ IsFunctionResponseRecord(input.items[i]) /\ FunctionResponseValid(input.items[i])

\* C24: normalising a list of tool-response inputs is all-or-nothing: on
\* dialect A it fails when any element lacks an id; when it succeeds the
\* tool response holds one FunctionResponse per element, in input order,
\* each with a non-empty id on dialect A.
ToolResponseBatchAllOrNothing ==
  (npc = "returned" /\ IsToolResponseList(ninput)) =>
    LET items == ninput.items
    IN /\ (~vertexai /\ \E i \in 1..Len(items) : ~Truthy(Get(items[i], "id")))
            => ~nresult.ok
       /\ nresult.ok =>
            /\ DOMAIN nresult.msg = {"tool_response"}
            /\ LET function_responses == nresult.msg.tool_response.function_responses.items
               IN /\ Len(function_responses) = Len(items)
                  /\ \A i \in 1..Len(items) :
                       /\ function_responses[i].name = items[i].name
                       /\ ~vertexai => Truthy(Get(function_responses[i], "id"))

\* The errors of normalisation that are its validation error (ValueError).
ValidationErrors == { Unsupported, FUNCTION_RESPONSE_REQUIRES_ID }

\* C25: normalisation has two outcomes only: it returns one client
\* message, or it fails with its validation error; it fails with no other
\* kind of error (not on a client message whose media_chunks or
\* function_responses is empty either), and it returns no message for an
\* input of no recognised shape.
NormalizeTwoOutcomes ==
  npc = "returned" =>
    /\ nresult.ok \/ nresult.err \in ValidationErrors
    /\ (ninput \in OtherInputs /\ Truthy(ninput)) => ~nresult.ok

\* C26: a list in which some element is a string or a content part, also
\* a list of content parts without any string (and holding no
\* tool-response record), normalises to a content update whose
\* turn_complete is the end_of_turn of the call.
ContentListBecomesContentUpdate ==
  (/\ npc = "returned" /\ IsList(ninput)
   /\ AnyOf(IsPartUnion, ninput.items)
   /\ ~AnyOf(IsFunctionResponseRecord, ninput.items)) =>
    /\ nresult.ok
    /\ DOMAIN nresult.msg = {"client_content"}
    /\ nresult.msg.client_content.turn_complete = neot

\* C27: the send loop writes the chunks of the source once each and in
\* source order, every chunk as a realtime frame of its own that holds one
\* media chunk with the MIME type of the call; the stop event is set only
\* after the send of the last chunk has completed, and never by a send
\* loop whose send failed.
ChunksIssued == IF slpc = "failed" THEN sidx - 1 ELSE sidx
SendLoopSendsInOrder ==
  /\ Len(sent) = 1 + ChunksIssued
  /\ \A i \in 1..ChunksIssued :
       LET message == sent[1 + i].obj
       IN /\ DOMAIN message = {"realtime_input"}
          /\ Len(message.realtime_input.media_chunks.items) = 1
          /\ message.realtime_input.media_chunks.items[1].data.s = ChunkData[i]
          /\ message.realtime_input.media_chunks.items[1].mime_type = MimeType
  /\ stop_event => (slpc = "done" /\ sidx = nchunks /\ writes = 0
                      /\ ChunksIssued = nchunks)
  /\ slpc = "failed" => ~stop_event
AllChunksSentThenStopped ==
  stop_event /\ nchunks = MaxChunks /\ Len(sent) = 1 + MaxChunks

\* C28: decoding defaults no field. On both dialects the decoded message
\* has server_content, tool_call and tool_call_cancellation exactly when
\* the frame has serverContent, toolCall and toolCallCancellation, its
\* server content has model_turn, turn_complete and interrupted exactly
\* when the frame's has modelTurn, turnComplete and interrupted, any other
\* field of the frame is dropped, and the empty body decodes to a message
\* with no field at all.
WireNames ==
  [server_content |-> "serverContent", tool_call |-> "toolCall",
   tool_call_cancellation |-> "toolCallCancellation"]
ContentWireNames ==
  [model_turn |-> "modelTurn", turn_complete |-> "turnComplete",
   interrupted |-> "interrupted"]
DecodeNeverDefaults ==
  \A i \in 1..Len(delivered) :
    LET frame == arrived[Len(ack) + i]
        body  == IF frame.raw = "json" THEN frame.obj ELSE << >>
    IN frame.raw # "garbage" =>
         /\ delivered[i].ev = "message"
         /\ DOMAIN delivered[i].msg =
              {f \in DOMAIN WireNames : WireNames[f] \in DOMAIN body}
         /\ "server_content" \in DOMAIN delivered[i].msg =>
              DOMAIN delivered[i].msg.server_content =
                {f \in DOMAIN ContentWireNames :
                   ContentWireNames[f] \in DOMAIN body.serverContent}
         /\ frame.raw = "empty" => DOMAIN delivered[i].msg = {}

DecodedSparseFrames ==
  /\ ~vertexai
  /\ \E i, j, k \in 1..Len(delivered) :
       /\ arrived[Len(ack) + i] = FrameEmpty
       /\ delivered[i] = [ev |-> "message", msg |-> << >>]
       /\ arrived[Len(ack) + j] = FramePartial
       /\ DOMAIN delivered[j].msg.server_content = {"model_turn"}
       /\ arrived[Len(ack) + k] = FrameSetupAck
       /\ delivered[k] = [ev |-> "message", msg |-> << >>]

\* C29: the coordinator of start_stream has at most one receive task
\* reading: it creates a receive task either as its first, or after the
\* previous one has completed with a message and that message has been
\* yielded, so that everything read so far is with the caller.
StreamOneReceiveTask ==
  [][ (recv_task' = "pending" /\ recv_task # "pending") =>
        \/ recv_task = "none" /\ nread = 1 /\ out = << >>
        \/ /\ recv_task = "result"
           /\ kpc = "sleep"
           /\ Len(out) = nread - 1
           /\ out[Len(out)] = recv_result[1]
           /\ out' = out /\ nread' = nread ]_vars

SecondReceiveTaskAfterYield ==
  recv_task = "pending" /\ kpc = "wait" /\ Len(out) = 1 /\ nread = 2

\* C30: start_stream loses and duplicates no message. What it has yielded
\* is, in socket order, the decoded frames its receive tasks have read; a
\* frame read and not yet yielded is the result of the finished receive
\* task the coordinator is about to look at (or a frame json.loads
\* rejected, which ends the stream with its error), and the coordinator
\* yields that result also when the stop event is set by then; a receive
\* task is cancelled only while its read is pending, and it then has read
\* nothing.
StreamYieldsEveryFrameRead ==
  /\ [](/\ Len(out) <= nread - 1
        /\ \A i \in 1..Len(out) : out[i] = DecodeFrame(vertexai, arrived[1 + i])
        /\ Len(out) < nread - 1 =>
             /\ Len(out) = nread - 2
             /\ \/ recv_task = "result" /\ kpc = "wait"
                \/ recv_task = "error" /\ kpc \in {"wait", "raised"}
                     /\ JsonFails(arrived[nread])
        /\ recv_task \in {"cancelling", "cancelled"} => Len(out) = nread - 1)
  /\ [][ /\ (kpc = "wait" /\ recv_task = "result" /\ kpc' # kpc) =>
             out' = Append(out, DecodeFrame(vertexai, arrived[nread]))
         /\ (recv_task' = "cancelling" /\ recv_task # "cancelling") =>
             (recv_task = "pending" /\ nread' = nread /\ stop_event) ]_vars

YieldedWithStopSet ==
  /\ kpc = "yield" /\ stop_event /\ recv_task = "result"
  /\ nread = 3 /\ Len(out) = 2 /\ out[2] = DecodeFrame(vertexai, arrived[3])

\* C31: once the output of start_stream has ended (the source is
\* exhausted, the socket closed during a receive, or a parse error went to
\* the caller) the send loop has finished as well: no further chunk is
\* taken from the source and no further frame is written.
CoordEnded == kpc \in {"done", "raised"}
SendLoopEndsWithStream ==
  /\ [](CoordEnded => slpc \in {"done", "failed"})
  /\ [][CoordEnded => (sidx' = sidx /\ sent' = sent)]_vars

\* The conversations a blob is part of, and the blob with a given id.
ConversationsOf(blob) == {p \in DOMAIN conversations : blob.id \in p}
BlobIds == {blobs[i].id : i \in 1..Len(blobs)}

\* C32: after every step of the simulation a blob has a message, and a
\* non-empty one, exactly when it is in an active conversation; no blob is
\* in two active conversations; and a blob in a conversation has zero
\* velocity as long as the conversation is active.
BlobsTalkInPairs ==
  /\ \A i \in 1..Len(blobs) :
       /\ ~IsNone(blobs[i].message) <=> ConversationsOf(blobs[i]) # {}
       /\ ~IsNone(blobs[i].message) => (IsStr(blobs[i].message) /\ blobs[i].message.s # "")
       /\ Cardinality(ConversationsOf(blobs[i])) <= 1
       /\ ConversationsOf(blobs[i]) # {} => ~blobs[i].moving
  /\ \A p \in DOMAIN conversations : Cardinality(p) = 2 /\ p \subseteq BlobIds

TwoTalkOneMoves ==
  /\ Len(blobs) = 3
  /\ DOMAIN conversations = {{0, 1}}
  /\ conversations[{0, 1}] = 1
  /\ ~blobs[1].moving /\ ~blobs[2].moving
  /\ blobs[1].message = blobs[2].message
  /\ IsNone(blobs[3].message) /\ blobs[3].moving

\* C33: two blobs converse at most once. conversed_with is symmetric and
\* only grows; when a conversation ends each of its blobs has the other in
\* conversed_with; and a conversation starts only between blobs that do not
\* have each other in conversed_with, whatever blobs were added meanwhile.
ConversedWithEachOther(bs, p) ==
  \A i \in 1..Len(bs) : bs[i].id \in p => (p \ {bs[i].id}) \subseteq bs[i].conversed_with
NeverConversed(bs, p) ==
  \A i \in 1..Len(bs) : bs[i].id \in p => (p \ {bs[i].id}) \cap bs[i].conversed_with = {}
BlobsConverseOnce ==
  /\ [](/\ \A i, j \in 1..Len(blobs) :
             blobs[j].id \in blobs[i].conversed_with
               => blobs[i].id \in blobs[j].conversed_with
        /\ \A p \in DOMAIN conversations : NeverConversed(blobs, p))
  /\ [][ /\ \A i \in 1..Len(blobs) :
              /\ blobs'[i].id = blobs[i].id
              /\ blobs[i].conversed_with \subseteq blobs'[i].conversed_with
         /\ \A p \in DOMAIN conversations \ DOMAIN conversations' :
              ConversedWithEachOther(blobs', p)
         /\ \A p \in DOMAIN conversations' \ DOMAIN conversations :
              NeverConversed(blobs, p) ]_vars

ConversedAndTalkingToAnother ==
  /\ Len(blobs) = 3
  /\ blobs[1].conversed_with = {1} /\ blobs[2].conversed_with = {0}
  /\ DOMAIN conversations = {{0, 2}}

\* C34: every conversation that starts ends. Its timer has gone down once
\* in the step that started it and once in every later step, the
\* conversation is removed by the decrement that is number
\* MESSAGE_DURATION, at that point both blobs have no message, and while
\* steps go on every active conversation comes to be removed.
ConversationsEnd ==
  /\ [](\A p \in DOMAIN conversations :
          /\ p \in DOMAIN decrements
          /\ decrements[p] >= 1
          /\ conversations[p] = MESSAGE_DURATION - decrements[p]
          /\ conversations[p] >= 1)
  /\ [][ \A p \in DOMAIN conversations \ DOMAIN conversations' :
           /\ decrements[p] + 1 = MESSAGE_DURATION
           /\ \A i \in 1..Len(blobs') : blobs'[i].id \in p => IsNone(blobs'[i].message) ]_vars
  /\ \A p \in {q \in SUBSET (0..(MaxBlobs - 1)) : Cardinality(q) = 2} :
       (p \in DOMAIN conversations) ~> (p \notin DOMAIN conversations)

ConversationJustEnded ==
  /\ conversations = << >>
  /\ \E i, j \in 1..Len(blobs) :
       /\ i # j
       /\ blobs[j].id \in blobs[i].conversed_with
       /\ IsNone(blobs[i].message) /\ blobs[i].message_timer = 1
       /\ IsNone(blobs[j].message) /\ blobs[j].message_timer = 1

====
